---- MODULE Spec2Model ----
(***************************************************************************)
(* Model of the configuration-synthesis core of the ingress controller:    *)
(*   src/endpoints.go   getEndpointsFromSlices                              *)
(*   src/main.go        getConfiguration, updateServerLocations,            *)
(*                      getStreamServices, getStreamSnippets                *)
(*   src/controller.go  getBackendServers, getDefaultUpstream               *)
(*                                                                         *)
(* Go strings that are parsed, formatted, concatenated or ordered are      *)
(* sequences of one-character strings; strings that are only compared for  *)
(* equality are TLA+ strings.                                              *)
(***************************************************************************)
EXTENDS Integers, Sequences, FiniteSets, TLC

VARIABLES
    epCall,     \* arguments of the pending getEndpointsFromSlices call
    epRet,      \* its result: [done, ups, lookups]
    locCall,    \* argument of the pending updateServerLocations call
    locRet,     \* its result: [done, locations]
    strCall,    \* controller and arguments of the pending getStreamServices call
    strRet,     \* its result: [done, svcs]
    duCall,     \* controller of the pending getDefaultUpstream call
    duRet,      \* its result: [done, panicked, upstream]
    sortCall,   \* upstream list and server map handed to the final sorts
    sortRet,    \* their result: [done, aUpstreams, aServers]
    passCall,   \* controller and ingress list of the running synthesis pass
    pass        \* its position, the maps and lists it builds, and its result

epVars == <<epCall, epRet>>
locVars == <<locCall, locRet>>
strVars == <<strCall, strRet>>
passVars == <<passCall, pass>>
duVars == <<duCall, duRet>>
sortVars == <<sortCall, sortRet>>

vars ==
    <<epCall, epRet, locCall, locRet, strCall, strRet, duCall, duRet, sortCall, sortRet,
      passCall, pass>>

(***************************************************************************)
(* Bounds of the model.                                                    *)
(***************************************************************************)
MaxSlices == 2          \* EndpointSlices of one service
MaxEndpoints == 3       \* endpoints of one service, over all its slices

(***************************************************************************)
(* strconv.Atoi, strconv.Itoa / fmt.Sprintf("%v", int)                     *)
(***************************************************************************)
Digits == <<"0", "1", "2", "3", "4", "5", "6", "7", "8", "9">>

IsDigit(c) == \E d \in 1..10 : Digits[d] = c

DigitVal(c) == (CHOOSE d \in 1..10 : Digits[d] = c) - 1

\* A Go int (64 bit) is kept as the two limbs hi * Limb + lo of its magnitude.
Limb == 65536

RECURSIVE digitsValue(_, _)
digitsValue(s, acc) ==
    IF s = <<>> THEN acc
    ELSE LET lo10 == acc.lo * 10 + DigitVal(Head(s))
         IN  digitsValue(Tail(s), [hi |-> acc.hi * 10 + lo10 \div Limb,
                                   lo |-> lo10 % Limb])

\* strconv.Atoi: an optional sign, then one or more decimal digits.  The
\* strings of the model have at most ten digits, so none is out of range.
AtoiWide(s) ==
    LET signed == s # <<>> /\ Head(s) \in {"+", "-"}
        body == IF signed THEN Tail(s) ELSE s
        mag == digitsValue(body, [hi |-> 0, lo |-> 0])
    IN  IF body = <<>> \/ \E i \in 1..Len(body) : ~IsDigit(body[i])
        THEN [err |-> TRUE, neg |-> FALSE, hi |-> 0, lo |-> 0]
        ELSE [err |-> FALSE, neg |-> signed /\ Head(s) = "-",
              hi |-> mag.hi, lo |-> mag.lo]

\* The value of a Go int that fits 31 bits.
IntOf(w) == IF w.neg THEN 0 - (w.hi * Limb + w.lo) ELSE w.hi * Limb + w.lo

Atoi(s) ==
    LET w == AtoiWide(s)
    IN  [err |-> w.err, val |-> IF w.err THEN 0 ELSE IntOf(w)]

\* int32(x): the low 32 bits of x, signed.
Int32(w) ==
    LET h16 == w.hi % Limb
        low == IF h16 >= Limb \div 2 THEN (h16 - Limb) * Limb + w.lo
               ELSE h16 * Limb + w.lo
    IN  IF w.neg THEN 0 - low ELSE low

RECURSIVE natToStr(_)
natToStr(n) ==
    IF n < 10 THEN <<Digits[n + 1]>>
    ELSE natToStr(n \div 10) \o <<Digits[(n % 10) + 1]>>

Itoa(n) == IF n < 0 THEN <<"-">> \o natToStr(0 - n) ELSE natToStr(n)

(***************************************************************************)
(* intstr.IntOrString                                                      *)
(***************************************************************************)
FromInt(n) == [Type |-> "Int", IntVal |-> n, StrVal |-> <<>>]
FromString(s) == [Type |-> "String", IntVal |-> 0, StrVal |-> s]

\* IntOrString.IntValue: IntVal, or the string converted, 0 when it does not parse.
IntValue(ios) ==
    IF ios.Type = "String" THEN Atoi(ios.StrVal).val ELSE ios.IntVal

\* IntOrString.String: the port as declared.
IntOrStringText(ios) ==
    IF ios.Type = "String" THEN ios.StrVal ELSE Itoa(ios.IntVal)

(***************************************************************************)
(* src/endpoints.go                                                        *)
(***************************************************************************)
emptyZone == ""

PreferClose == "PreferClose"

\* net.ParseIP / IP.IsLoopback / validation.IsDNS1123Subdomain on the external
\* names of the model.
ExternalNames ==
    {"localhost", "localhost.", "127.0.0.1", "::1", "10.0.0.1",
     "example.com", "example.com.", "bad_name", ""}

ParseIPisNil(name) == name \notin {"127.0.0.1", "::1", "10.0.0.1"}

IsLoopback(name) == name \in {"127.0.0.1", "::1"}

TrimSuffixDot(name) ==
    CASE name = "localhost." -> "localhost"
      [] name = "example.com." -> "example.com"
      [] OTHER -> name

IsDNS1123Subdomain(name) == name \in {"localhost", "example.com"}

\* endpoints.go:30-31
isLocalhostName(externalName) ==
    externalName = "localhost"
        \/ (~ParseIPisNil(externalName) /\ IsLoopback(externalName))

\* endpoints.go:39-45
isInvalidDNSName(externalName) ==
    ParseIPisNil(externalName)
        /\ ~IsDNS1123Subdomain(TrimSuffixDot(externalName))

\* endpoints.go:67-87: the slice ports that yield a target port.
RECURSIVE matchPorts(_, _, _)
matchPorts(epPorts, port, proto) ==
    IF epPorts = <<>> THEN <<>>
    ELSE LET epPort == Head(epPorts)
             byName == IF port.Name = <<>> THEN epPort.Port
                       ELSE IF port.Name = epPort.Name THEN epPort.Port
                       ELSE 0
             targetPort == IF byName = 0 /\ port.TargetPort.Type = "Int"
                           THEN port.TargetPort.IntVal
                           ELSE byName
             rest == matchPorts(Tail(epPorts), port, proto)
         IN  IF epPort.Protocol # proto THEN rest
             ELSE IF targetPort = 0 THEN rest
             ELSE <<targetPort>> \o rest

\* endpoints.go:61-88
candidatePorts(eps, port, proto) ==
    IF Len(eps.Ports) = 0 /\ port.TargetPort.Type = "Int"
    THEN <<port.TargetPort.IntVal>>
    ELSE matchPorts(eps.Ports, port, proto)

\* endpoints.go:100-105, 131-136
hintedForZone(ep, zone) ==
    ep.HasHints /\ \E i \in 1..Len(ep.ForZones) : ep.ForZones[i] = zone

\* endpoints.go:95-106
foundEndpointsForZone(eps, zone) ==
    \E i \in 1..Len(eps.Endpoints) : hintedForZone(eps.Endpoints[i], zone)

\* endpoints.go:114-119
allEndpointsHaveHints(eps) ==
    \A i \in 1..Len(eps.Endpoints) :
        eps.Endpoints[i].HasHints /\ Len(eps.Endpoints[i].ForZones) > 0

\* endpoints.go:89-123: decided anew for every slice of the loop.
useTopologyHints(eps, zoneForHints, useTrafficDistribution) ==
    /\ zoneForHints # emptyZone
    /\ (useTrafficDistribution => foundEndpointsForZone(eps, zoneForHints))
    /\ allEndpointsHaveHints(eps)

notReady_ignored(ep) == FALSE

\* endpoints.go:126
notReady(ep) == ep.Ready = "false"

alreadyProcessed_never(processed, hostPort) == FALSE

\* endpoints.go:146
alreadyProcessed(processed, hostPort) == hostPort \in processed

\* endpoints.go:144-156; net.JoinHostPort is the pair (address, port).
RECURSIVE emitAddresses(_, _, _, _)
emitAddresses(acc, ep, epPort, addresses) ==
    IF addresses = <<>> THEN acc
    ELSE LET epAddress == Head(addresses)
             hostPort == <<epAddress, Itoa(epPort)>>
             next ==
                 IF alreadyProcessed(acc.processed, hostPort) THEN acc
                 ELSE [upsServers |-> Append(acc.upsServers,
                                        [Address |-> epAddress,
                                         Port |-> Itoa(epPort),
                                         Target |-> ep.TargetRef]),
                       processed |-> acc.processed \cup {hostPort}]
         IN  emitAddresses(next, ep, epPort, Tail(addresses))

\* endpoints.go:143-157
RECURSIVE emitPorts(_, _, _)
emitPorts(acc, ep, ports) ==
    IF ports = <<>> THEN acc
    ELSE emitPorts(emitAddresses(acc, ep, Head(ports), ep.Addresses),
                   ep, Tail(ports))

\* endpoints.go:125-158
RECURSIVE emitEndpoints(_, _, _, _, _)
emitEndpoints(acc, endpoints, ports, useHints, zoneForHints) ==
    IF endpoints = <<>> THEN acc
    ELSE LET ep == Head(endpoints)
             skip == notReady(ep)
                        \/ (useHints /\ ~hintedForZone(ep, zoneForHints))
             next == IF skip THEN acc ELSE emitPorts(acc, ep, ports)
         IN  emitEndpoints(next, Tail(endpoints), ports, useHints, zoneForHints)

\* endpoints.go:60-159
RECURSIVE overSlices(_, _, _, _, _, _)
overSlices(acc, epss, port, proto, zoneForHints, useTrafficDistribution) ==
    IF epss = <<>> THEN acc
    ELSE LET eps == Head(epss)
             ports == candidatePorts(eps, port, proto)
             useHints == useTopologyHints(eps, zoneForHints, useTrafficDistribution)
         IN  overSlices(emitEndpoints(acc, eps.Endpoints, ports, useHints, zoneForHints),
                        Tail(epss), port, proto, zoneForHints, useTrafficDistribution)

\* endpoints.go:8-163.  lookups counts the calls of getServiceEndpointsSlices.
resolveEndpoints(s, port, proto, zoneForHints, getServiceEndpointsSlices) ==
    IF s.IsNil \/ port.IsNil THEN [upsServers |-> <<>>, lookups |-> 0]
    ELSE IF s.Type = "ExternalName"
    THEN IF isLocalhostName(s.ExternalName) \/ isInvalidDNSName(s.ExternalName)
         THEN [upsServers |-> <<>>, lookups |-> 0]
         ELSE [upsServers |-> <<[Address |-> s.ExternalName,
                                 Port |-> Itoa(IntValue(port.TargetPort)),
                                 Target |-> "nil"]>>,
               lookups |-> 0]
    ELSE LET got == getServiceEndpointsSlices[s.Key]
             useTrafficDistribution == s.TrafficDistribution = PreferClose
         IN  IF got.err THEN [upsServers |-> <<>>, lookups |-> 1]
             ELSE [upsServers |->
                       overSlices([upsServers |-> <<>>, processed |-> {}],
                                  got.epss, port, proto, zoneForHints,
                                  useTrafficDistribution).upsServers,
                   lookups |-> 1]

getEndpointsFromSlices(s, port, proto, zoneForHints, getServiceEndpointsSlices) ==
    resolveEndpoints(s, port, proto, zoneForHints, getServiceEndpointsSlices).upsServers

(***************************************************************************)
(* Inputs of getEndpointsFromSlices.                                       *)
(***************************************************************************)
StrHttp == <<"h", "t", "t", "p">>
StrWeb == <<"w", "e", "b">>
StrAdmin == <<"a", "d", "m", "i", "n">>
StrDns == <<"d", "n", "s">>

NilPort ==
    [IsNil |-> TRUE, Name |-> <<>>, Port |-> 0, Protocol |-> "TCP",
     TargetPort |-> FromInt(0)]

ServicePorts ==
    {[IsNil |-> FALSE, Name |-> StrHttp, Port |-> 80, Protocol |-> "TCP",
      TargetPort |-> FromInt(8080)],
     [IsNil |-> FALSE, Name |-> StrWeb, Port |-> 80, Protocol |-> "TCP",
      TargetPort |-> FromInt(8080)],
     [IsNil |-> FALSE, Name |-> <<>>, Port |-> 80, Protocol |-> "TCP",
      TargetPort |-> FromString(StrHttp)],
     [IsNil |-> FALSE, Name |-> <<>>, Port |-> 80, Protocol |-> "TCP",
      TargetPort |-> FromString(<<"8", "0", "8", "0">>)]}

NilService ==
    [IsNil |-> TRUE, Key |-> "", Type |-> "ClusterIP", ExternalName |-> "",
     TrafficDistribution |-> "", Ports |-> <<>>]

RegularService(key, trafficDistribution, ports) ==
    [IsNil |-> FALSE, Key |-> key, Type |-> "ClusterIP", ExternalName |-> "",
     TrafficDistribution |-> trafficDistribution, Ports |-> ports]

ExternalNameService(key, externalName, ports) ==
    [IsNil |-> FALSE, Key |-> key, Type |-> "ExternalName",
     ExternalName |-> externalName, TrafficDistribution |-> "", Ports |-> ports]

\* discoveryv1.Endpoint: Ready is a *bool ("nil", "true", "false"); Hints is a
\* pointer (HasHints) to a list of zones; TargetRef names the backing pod.
EndpointPool ==
    {[Addresses |-> <<"10.0.0.1">>, Ready |-> "true", HasHints |-> TRUE,
      ForZones |-> <<"z1">>, TargetRef |-> "pod-a"],
     [Addresses |-> <<"10.0.0.2", "10.0.0.1">>, Ready |-> "nil", HasHints |-> TRUE,
      ForZones |-> <<"z2">>, TargetRef |-> "pod-b"],
     [Addresses |-> <<"10.0.0.3">>, Ready |-> "true", HasHints |-> FALSE,
      ForZones |-> <<>>, TargetRef |-> "pod-c"],
     [Addresses |-> <<"10.0.0.1">>, Ready |-> "false", HasHints |-> TRUE,
      ForZones |-> <<"z1">>, TargetRef |-> "pod-d"]}

\* discoveryv1.EndpointPort lists of a slice.
SlicePortLists ==
    {<<>>,
     <<[Name |-> StrHttp, Port |-> 8081, Protocol |-> "TCP"],
       [Name |-> StrAdmin, Port |-> 8081, Protocol |-> "TCP"]>>,
     <<[Name |-> StrHttp, Port |-> 8082, Protocol |-> "UDP"],
       [Name |-> StrAdmin, Port |-> 9090, Protocol |-> "TCP"]>>}

\* The sequences of n distinct endpoints of pool.
RECURSIVE EndpointSeqs(_, _)
EndpointSeqs(n, pool) ==
    IF n = 0 THEN {<<>>}
    ELSE UNION {{<<e>> \o r : r \in EndpointSeqs(n - 1, pool \ {e})} : e \in pool}

SeqRange(es) == {es[i] : i \in 1..Len(es)}

\* The lists of at most slices non-empty EndpointSlices that hold at most budget
\* endpoints of pool, every endpoint in one slice only.
RECURSIVE SliceLists(_, _, _)
SliceLists(slices, budget, pool) ==
    {<<>>} \cup
    IF slices = 0 THEN {}
    ELSE UNION {UNION {{<<[Ports |-> p, Endpoints |-> es]>> \o rest :
                          p \in SlicePortLists,
                          rest \in SliceLists(slices - 1, budget - n,
                                              pool \ SeqRange(es))} :
                       es \in EndpointSeqs(n, pool)} :
                n \in 1..budget}

EPZones == {emptyZone, "z1"}

LookupOK(key, epss) == [k \in {key} |-> [err |-> FALSE, epss |-> epss]]
LookupFails(key) == [k \in {key} |-> [err |-> TRUE, epss |-> <<>>]]

EPRegularCalls ==
    {[s |-> RegularService("ns/svc", td, <<port>>), port |-> port, proto |-> "TCP",
      zoneForHints |-> zone, getServiceEndpointsSlices |-> LookupOK("ns/svc", epss)] :
        td \in {"", PreferClose}, port \in ServicePorts, zone \in EPZones,
        epss \in SliceLists(MaxSlices, MaxEndpoints, EndpointPool)}

EPFailingCalls ==
    {[s |-> RegularService("ns/svc", "", <<port>>), port |-> port, proto |-> "TCP",
      zoneForHints |-> zone, getServiceEndpointsSlices |-> LookupFails("ns/svc")] :
        port \in ServicePorts, zone \in EPZones}

EPExternalNameCalls ==
    {[s |-> ExternalNameService("ns/ext", name, <<port>>), port |-> port,
      proto |-> "TCP", zoneForHints |-> zone,
      getServiceEndpointsSlices |-> LookupOK("ns/ext", epss)] :
        name \in ExternalNames, port \in ServicePorts, zone \in EPZones,
        epss \in SliceLists(1, 1, EndpointPool)}

EPNilCalls ==
    {[s |-> NilService, port |-> port, proto |-> "TCP", zoneForHints |-> emptyZone,
      getServiceEndpointsSlices |-> LookupFails("")] : port \in ServicePorts}
    \cup
    {[s |-> RegularService("ns/svc", "", <<>>), port |-> NilPort, proto |-> "TCP",
      zoneForHints |-> emptyZone,
      getServiceEndpointsSlices |-> LookupOK("ns/svc", epss)] :
        epss \in SliceLists(1, 1, EndpointPool)}

EPCalls == EPRegularCalls \cup EPFailingCalls \cup EPExternalNameCalls \cup EPNilCalls

EPPending == [done |-> FALSE, upsServers |-> <<>>, lookups |-> 0]

EPIdleCall ==
    [s |-> NilService, port |-> NilPort, proto |-> "TCP", zoneForHints |-> emptyZone,
     getServiceEndpointsSlices |-> LookupFails("")]

LocIdleCall == <<>>
LocPending == [done |-> FALSE, locations |-> <<>>]

StrIdleCall == <<>>
StrPending == [done |-> FALSE, svcs |-> <<>>]

DUIdleCall == <<>>
DUPending == [done |-> FALSE, panicked |-> FALSE, upstream |-> <<>>]

SortIdleCall == <<>>
SortPending == [done |-> FALSE, aUpstreams |-> <<>>, aServers |-> <<>>]

PassIdleCall == <<>>
PassPending ==
    [pc |-> "build", idx |-> 1, upstreams |-> <<>>, servers |-> <<>>,
     canaryIngresses |-> <<>>, pending |-> {}, aUpstreams |-> <<>>,
     aServers |-> <<>>, ret |-> <<>>]

(***************************************************************************)
(* Specification of one call of getEndpointsFromSlices.                    *)
(***************************************************************************)
EPIdle == epCall = EPIdleCall /\ epRet = EPPending

LocIdle == locCall = LocIdleCall /\ locRet = LocPending

StrIdle == strCall = StrIdleCall /\ strRet = StrPending

PassIdle == passCall = PassIdleCall /\ pass = PassPending

DUIdle == duCall = DUIdleCall /\ duRet = DUPending

SortIdle == sortCall = SortIdleCall /\ sortRet = SortPending

InitEP ==
    /\ epCall \in EPCalls
    /\ epRet = EPPending
    /\ LocIdle /\ StrIdle /\ PassIdle /\ DUIdle /\ SortIdle

CallGetEndpointsFromSlices ==
    /\ ~epRet.done
    /\ LET r == resolveEndpoints(epCall.s, epCall.port, epCall.proto,
                                 epCall.zoneForHints,
                                 epCall.getServiceEndpointsSlices)
       IN  epRet' = [done |-> TRUE, upsServers |-> r.upsServers,
                     lookups |-> r.lookups]
    /\ UNCHANGED <<epCall, locVars, strVars, passVars, duVars, sortVars>>

NextEP == CallGetEndpointsFromSlices

SpecEP == InitEP /\ [][NextEP]_vars

(***************************************************************************)
(* Properties of getEndpointsFromSlices.                                   *)
(***************************************************************************)
EPRegularDone ==
    /\ epRet.done
    /\ ~epCall.s.IsNil /\ ~epCall.port.IsNil
    /\ epCall.s.Type # "ExternalName"
    /\ ~epCall.getServiceEndpointsSlices[epCall.s.Key].err

EPSlices == epCall.getServiceEndpointsSlices[epCall.s.Key].epss

\* The endpoints of all the slices of the service.
EPAllEndpoints ==
    {EPSlices[i].Endpoints[j] :
        <<i, j>> \in {p \in (1..Len(EPSlices)) \X (1..MaxEndpoints + 1) :
                        p[2] <= Len(EPSlices[p[1]].Endpoints)}}

EPNoZoneHint(ep) == ~ep.HasHints \/ Len(ep.ForZones) = 0

EPSource(e) == {ep \in EPAllEndpoints : ep.TargetRef = e.Target}

\* C2: with a preferred zone, one endpoint without a zone hint in any slice
\* disables zone filtering for every slice: the result is the one obtained
\* with no preferred zone.
C2_ZoneFailOpen ==
    (/\ EPRegularDone
     /\ epCall.zoneForHints # emptyZone
     /\ \E ep \in EPAllEndpoints : EPNoZoneHint(ep))
    => epRet.upsServers =
           getEndpointsFromSlices(epCall.s, epCall.port, epCall.proto, emptyZone,
                                  epCall.getServiceEndpointsSlices)

\* C3: with a preferred zone, every endpoint of every slice hinted, and (under
\* prefer-close) some endpoint of some slice hinted for the preferred zone,
\* every returned endpoint is hinted for the preferred zone.
C3_OnlyPreferredZone ==
    (/\ EPRegularDone
     /\ epCall.zoneForHints # emptyZone
     /\ \A ep \in EPAllEndpoints : ~EPNoZoneHint(ep)
     /\ (epCall.s.TrafficDistribution = PreferClose
            => \E ep \in EPAllEndpoints : hintedForZone(ep, epCall.zoneForHints)))
    => \A i \in 1..Len(epRet.upsServers) :
          \A ep \in EPSource(epRet.upsServers[i]) :
              hintedForZone(ep, epCall.zoneForHints)

\* C4: the returned list holds no two endpoints with the same (address, port).
C4_NoDuplicateEndpoint ==
    epRet.done =>
        \A i, j \in 1..Len(epRet.upsServers) :
            (/\ epRet.upsServers[i].Address = epRet.upsServers[j].Address
             /\ epRet.upsServers[i].Port = epRet.upsServers[j].Port) => i = j

\* A ready address offered by two endpoints and by two matching slice ports is
\* returned once.
C4_Witness ==
    /\ EPRegularDone
    /\ epCall.zoneForHints = emptyZone
    /\ Len(EPSlices) = 2
    /\ \E a, b \in EPAllEndpoints :
          /\ a.TargetRef = "pod-a" /\ b.TargetRef = "pod-b"
    /\ \E i \in 1..Len(EPSlices) :
          Len(candidatePorts(EPSlices[i], epCall.port, epCall.proto)) = 2
    /\ Cardinality({i \in 1..Len(epRet.upsServers) :
                       epRet.upsServers[i].Address = "10.0.0.1"}) = 1

\* C5: no returned endpoint comes from an endpoint whose Ready condition is
\* false.
C5_NotReadyExcluded ==
    EPRegularDone =>
        \A i \in 1..Len(epRet.upsServers) :
            \A ep \in EPSource(epRet.upsServers[i]) : ep.Ready # "false"

\* Zone filtering is active, a not-ready endpoint is hinted for the preferred
\* zone, and endpoints are returned.
C5_Witness ==
    /\ EPRegularDone
    /\ epCall.zoneForHints = "z1"
    /\ \E i \in 1..Len(EPSlices) :
          /\ useTopologyHints(EPSlices[i], "z1", epCall.s.TrafficDistribution = PreferClose)
          /\ \E j \in 1..Len(EPSlices[i].Endpoints) :
                /\ EPSlices[i].Endpoints[j].Ready = "false"
                /\ hintedForZone(EPSlices[i].Endpoints[j], "z1")
    /\ Len(epRet.upsServers) > 0

\* C6: an ExternalName service yields no endpoint for "localhost", a loopback
\* IP or an invalid DNS name, and otherwise one endpoint with the external
\* name and the declared target port; the slice lookup is not consulted.
C6_ExternalName ==
    (/\ epRet.done
     /\ ~epCall.s.IsNil /\ ~epCall.port.IsNil
     /\ epCall.s.Type = "ExternalName")
    => /\ epRet.lookups = 0
       /\ IF \/ epCall.s.ExternalName = "localhost"
             \/ IsLoopback(epCall.s.ExternalName)
             \/ (ParseIPisNil(epCall.s.ExternalName)
                    /\ ~IsDNS1123Subdomain(TrimSuffixDot(epCall.s.ExternalName)))
          THEN epRet.upsServers = <<>>
          ELSE /\ Len(epRet.upsServers) = 1
               /\ epRet.upsServers[1].Address = epCall.s.ExternalName
               /\ epRet.upsServers[1].Port = IntOrStringText(epCall.port.TargetPort)

(***************************************************************************)
(* src/main.go: updateServerLocations                                      *)
(***************************************************************************)
rootLocation == <<"/">>

pathTypeExact == "Exact"
pathTypePrefix == "Prefix"
pathTypeImplementationSpecific == "ImplementationSpecific"

NoRewrite == [Target |-> <<>>, UseRegex |-> FALSE]

\* A Location as getBackendServers builds it (controller.go:281-289); Service
\* and Ingress are the keys of the objects the Go pointers refer to.
NewLocation(path, pathType, backend, rewrite) ==
    [Path |-> path, PathType |-> pathType, Backend |-> backend,
     IsDefBackend |-> FALSE, IngressPath |-> <<>>, Rewrite |-> rewrite,
     Service |-> "", Port |-> FromInt(0), Ingress |-> "",
     Redirect |-> [FromToWWW |-> FALSE],
     HasDefaultBackend |-> FALSE, DefaultBackend |-> NilService,
     DefaultBackendUpstreamName |-> <<>>]

HasSuffixSlash(path) == path # <<>> /\ path[Len(path)] = "/"

normalizePrefixPath_unchanged(path) == path

\* main.go:314-324
normalizePrefixPath(path) ==
    IF path = rootLocation THEN rootLocation
    ELSE IF ~HasSuffixSlash(path) THEN path \o <<"/">>
    ELSE path

\* main.go:326-332
needsRewrite(location) ==
    location.Rewrite.Target # <<>> /\ location.Rewrite.Target # location.Path

\* main.go:262-267: the paths of the Exact locations of the list.
exactLocations(locations) ==
    {locations[i].Path : i \in {j \in 1..Len(locations) :
                                  locations[j].PathType = pathTypeExact}}

\* main.go:270-308: the locations one pass of the loop appends.
updateLocation(location, exact) ==
    IF location.Path = rootLocation THEN <<location>>
    ELSE LET loc == [location EXCEPT !.IngressPath = location.Path]
         IN  IF loc.PathType # pathTypePrefix THEN <<loc>>
             ELSE IF needsRewrite(loc) \/ loc.Rewrite.UseRegex THEN <<loc>>
             ELSE IF loc.Path \in exact
             THEN <<[loc EXCEPT !.Path = normalizePrefixPath(loc.Path)]>>
             ELSE <<[loc EXCEPT !.Path = normalizePrefixPath(loc.Path)],
                    [loc EXCEPT !.PathType = pathTypeExact]>>

RECURSIVE appendUpdated(_, _)
appendUpdated(locations, exact) ==
    IF locations = <<>> THEN <<>>
    ELSE updateLocation(Head(locations), exact)
            \o appendUpdated(Tail(locations), exact)

\* main.go:258-312
updateServerLocations(locations) ==
    appendUpdated(locations, exactLocations(locations))

(***************************************************************************)
(* Inputs and specification of one call of updateServerLocations.          *)
(***************************************************************************)
MaxLocations == 2       \* Locations of one Server

LocPaths == {<<"/">>, <<"/", "a">>, <<"/", "a", "/">>}

LocRewrites ==
    {NoRewrite,
     [Target |-> <<"/", "a">>, UseRegex |-> FALSE],
     [Target |-> <<>>, UseRegex |-> TRUE]}

LocationPool ==
    {NewLocation(path, pathType, backend, rewrite) :
        path \in LocPaths,
        pathType \in {pathTypeExact, pathTypePrefix, pathTypeImplementationSpecific},
        backend \in {"ns-svc1-80", "ns-svc2-80"},
        rewrite \in LocRewrites}

RECURSIVE LocationLists(_)
LocationLists(n) ==
    {<<>>} \cup
    IF n = 0 THEN {}
    ELSE {<<l>> \o rest : l \in LocationPool, rest \in LocationLists(n - 1)}

InitLoc ==
    /\ locCall \in LocationLists(MaxLocations)
    /\ locRet = LocPending
    /\ EPIdle /\ StrIdle /\ PassIdle /\ DUIdle /\ SortIdle

CallUpdateServerLocations ==
    /\ ~locRet.done
    /\ locRet' = [done |-> TRUE, locations |-> updateServerLocations(locCall)]
    /\ UNCHANGED <<locCall, epVars, strVars, passVars, duVars, sortVars>>

NextLoc == CallUpdateServerLocations

SpecLoc == InitLoc /\ [][NextLoc]_vars

(***************************************************************************)
(* Properties of updateServerLocations.                                    *)
(***************************************************************************)
\* The claim's cases of a Location of the input.
C7_Plain(loc) ==
    /\ loc.Path # rootLocation
    /\ loc.PathType = pathTypePrefix
    /\ loc.Rewrite.Target = <<>>
    /\ ~loc.Rewrite.UseRegex

C7_ExactAt(path) ==
    \E k \in 1..Len(locCall) :
        locCall[k].PathType = pathTypeExact /\ locCall[k].Path = path

\* Number of output Locations of an input Location.
C7_Count(loc) ==
    IF /\ loc.Path # rootLocation
       /\ loc.PathType = pathTypePrefix
       /\ ~(loc.Rewrite.Target # <<>> /\ loc.Rewrite.Target # loc.Path)
       /\ ~loc.Rewrite.UseRegex
       /\ ~C7_ExactAt(loc.Path)
    THEN 2 ELSE 1

RECURSIVE C7_Offset(_)
C7_Offset(i) == IF i = 1 THEN 0 ELSE C7_Offset(i - 1) + C7_Count(locCall[i - 1])

C7_Slashed(path) == IF path[Len(path)] = "/" THEN path ELSE Append(path, "/")

\* C7: a non-root Prefix location without rewrite target, regex and Exact
\* sibling becomes a Prefix location ending in "/" followed by an Exact
\* location at the original path with the same backend; with an Exact sibling
\* it is only slash-normalised; a "/" location is returned unchanged, once.
C7_PathSplit ==
    locRet.done =>
        /\ Len(locRet.locations) = C7_Offset(Len(locCall) + 1)
        /\ \A i \in 1..Len(locCall) :
              LET loc == locCall[i]
                  o == C7_Offset(i)
                  out == locRet.locations
              IN  /\ loc.Path = rootLocation =>
                        /\ out[o + 1] = loc
                        /\ C7_Count(loc) = 1
                  /\ (C7_Plain(loc) /\ ~C7_ExactAt(loc.Path)) =>
                        /\ C7_Count(loc) = 2
                        /\ out[o + 1].PathType = pathTypePrefix
                        /\ out[o + 1].Path = C7_Slashed(loc.Path)
                        /\ out[o + 1].Backend = loc.Backend
                        /\ out[o + 2].PathType = pathTypeExact
                        /\ out[o + 2].Path = loc.Path
                        /\ out[o + 2].Backend = loc.Backend
                  /\ (C7_Plain(loc) /\ C7_ExactAt(loc.Path)) =>
                        /\ C7_Count(loc) = 1
                        /\ out[o + 1].PathType = pathTypePrefix
                        /\ out[o + 1].Path = C7_Slashed(loc.Path)
                        /\ out[o + 1].Backend = loc.Backend

\* A root location and a Prefix location "/a" that is split.
C7_Witness ==
    /\ locRet.done
    /\ Len(locCall) = 2
    /\ locCall[1].Path = rootLocation
    /\ C7_Plain(locCall[2]) /\ locCall[2].Path = <<"/", "a">>
    /\ Len(locRet.locations) = 3
    /\ locRet.locations[2].Path = <<"/", "a", "/">>
    /\ locRet.locations[3].PathType = pathTypeExact

\* A Prefix location "/a" next to an Exact location "/a".
C7_WitnessExact ==
    /\ locRet.done
    /\ Len(locCall) = 2
    /\ C7_Plain(locCall[1]) /\ locCall[1].Path = <<"/", "a">>
    /\ locCall[2].PathType = pathTypeExact /\ locCall[2].Path = <<"/", "a">>
    /\ Len(locRet.locations) = 2

(***************************************************************************)
(* Stable sorting (sort.SliceStable).                                      *)
(***************************************************************************)
RECURSIVE InsertStable(_, _, _)
InsertStable(Less(_, _), x, s) ==
    IF s = <<>> THEN <<x>>
    ELSE IF Less(x, Head(s)) THEN <<x>> \o s
    ELSE <<Head(s)>> \o InsertStable(Less, x, Tail(s))

RECURSIVE SortStable(_, _)
SortStable(Less(_, _), s) ==
    IF s = <<>> THEN <<>>
    ELSE InsertStable(Less, s[Len(s)], SortStable(Less, SubSeq(s, 1, Len(s) - 1)))

\* The orders in which a Go map with these keys may be ranged over.
RECURSIVE Orders(_)
Orders(keys) ==
    IF keys = {} THEN {<<>>}
    ELSE UNION {{<<k>> \o rest : rest \in Orders(keys \ {k})} : k \in keys}

(***************************************************************************)
(* src/main.go: getStreamServices                                          *)
(*                                                                         *)
(* A "<namespace>/<name>" reference is the list of its "/"-separated       *)
(* parts; a service reference of the configmap is the list of its          *)
(* ":"-separated tokens (strings.Split, main.go:382): the reference, the   *)
(* port token, and the optional proxy-protocol tokens.                     *)
(***************************************************************************)
\* k8s.ParseNameNS: exactly "<namespace>/<name>".
ParseNameNS(nsName) ==
    IF Len(nsName) # 2 THEN [err |-> TRUE, ns |-> "", name |-> ""]
    ELSE [err |-> FALSE, ns |-> nsName[1], name |-> nsName[2]]

\* strings.EqualFold(token, "PROXY")
EqualFoldPROXY(token) == token \in {"PROXY", "proxy", "Proxy"}

\* main.go:359-370
reservedPorts(n) ==
    {n.cfg.ListenPorts.HTTP, n.cfg.ListenPorts.HTTPS, n.cfg.ListenPorts.SSLProxy,
     n.cfg.ListenPorts.Health, n.cfg.ListenPorts.Default,
     n.cfg.ProfilerPort, n.cfg.StatusPort, n.cfg.StreamPort}

\* main.go:413-418, controller.go:375-380, 460-465
zoneFor(n) == IF n.cfg.EnableTopologyAwareRouting THEN n.cfg.PodZone ELSE emptyZone

\* main.go:425, 437: the port token against one declared port.
portMatches(sp, svcPort, target) ==
    IF target.err THEN sp.Name = svcPort
    ELSE sp.Port = Int32(target)

\* main.go:420-444: the endpoints of the first declared port that matches the
\* token and the protocol.
RECURSIVE streamEndpoints(_, _, _, _, _, _)
streamEndpoints(n, svc, ports, svcPort, target, proto) ==
    IF ports = <<>> THEN <<>>
    ELSE LET sp == Head(ports)
         IN  IF portMatches(sp, svcPort, target) /\ sp.Protocol = proto
             THEN getEndpointsFromSlices(svc, sp, proto, zoneFor(n),
                                         n.store.GetServiceEndpointsSlices)
             ELSE streamEndpoints(n, svc, Tail(ports), svcPort, target, proto)

\* main.go:447
dropEmpty(endps) == Len(endps) = 0

\* main.go:373-462: the L4Services (none or one) of one configmap entry.
streamEntry(n, port, svcRef, proto) ==
    LET externalPort == Atoi(port)
        nsSvcPort == svcRef
    IN  IF externalPort.err THEN <<>>
        ELSE IF externalPort.val \in reservedPorts(n) THEN <<>>
        ELSE IF Len(nsSvcPort) < 2 THEN <<>>
        ELSE LET nsName == nsSvcPort[1]
                 svcPort == nsSvcPort[2]
                 tcp == Len(nsSvcPort) >= 3 /\ proto = "TCP"
                 decode == tcp /\ EqualFoldPROXY(nsSvcPort[3])
                 encode == tcp /\ Len(nsSvcPort) = 4 /\ EqualFoldPROXY(nsSvcPort[4])
                 parsed == ParseNameNS(nsName)
             IN  IF parsed.err THEN <<>>
                 ELSE IF n.store.GetService[nsName].err THEN <<>>
                 ELSE LET svc == n.store.GetService[nsName].svc
                          endps == streamEndpoints(n, svc, svc.Ports, svcPort,
                                                   AtoiWide(svcPort), proto)
                      IN  IF dropEmpty(endps) THEN <<>>
                          ELSE <<[Port |-> externalPort.val,
                                  Backend |-> [Name |-> parsed.name,
                                               Namespace |-> parsed.ns,
                                               Port |-> FromString(svcPort),
                                               Protocol |-> proto,
                                               ProxyProtocol |->
                                                   [Decode |-> decode,
                                                    Encode |-> encode]],
                                  Endpoints |-> endps,
                                  Service |-> svc.Key]>>

\* main.go:372-463: the loop over configmap.Data, ranged over in order.
RECURSIVE streamEntries(_, _, _, _)
streamEntries(n, data, order, proto) ==
    IF order = <<>> THEN <<>>
    ELSE streamEntry(n, Head(order), data[Head(order)], proto)
            \o streamEntries(n, data, Tail(order), proto)

\* main.go:464-467
sortByPort(svcs) == SortStable(LAMBDA a, b : a.Port < b.Port, svcs)

\* main.go:340-355: the configmap the entries are read from, if any.
streamConfigMap(n, configmapName) ==
    IF configmapName = <<>> THEN [err |-> TRUE, Data |-> <<>>]
    ELSE IF ParseNameNS(configmapName).err THEN [err |-> TRUE, Data |-> <<>>]
    ELSE n.store.GetConfigMap[configmapName]

\* main.go:340-469, with the order in which configmap.Data is ranged over.
getStreamServices(n, configmapName, proto, order) ==
    LET configmap == streamConfigMap(n, configmapName)
    IN  IF configmap.err THEN <<>>
        ELSE sortByPort(streamEntries(n, configmap.Data, order, proto))

\* The orders Go may range over the configmap of a call in.
streamOrders(n, configmapName) ==
    LET configmap == streamConfigMap(n, configmapName)
    IN  IF configmap.err THEN {<<>>} ELSE Orders(DOMAIN configmap.Data)

(***************************************************************************)
(* Inputs and specification of one call of getStreamServices.              *)
(***************************************************************************)
MaxEntries == 2         \* entries of the stream configmap

ProfilerPort == 10245
StatusPort == 10246
StreamPort == 10247

ListenPorts ==
    [HTTP |-> 80, HTTPS |-> 443, SSLProxy |-> 442, Health |-> 10254,
     Default |-> 8181]

Config(topologyAware) ==
    [ListenPorts |-> ListenPorts, ProfilerPort |-> ProfilerPort,
     StatusPort |-> StatusPort, StreamPort |-> StreamPort,
     EnableTopologyAwareRouting |-> topologyAware, PodZone |-> "z1"]

NsSvc == <<"ns", "svc">>
NsEmpty == <<"ns", "empty">>
NsMissing == <<"ns", "missing">>

StreamServicePorts ==
    <<[IsNil |-> FALSE, Name |-> StrHttp, Port |-> 80, Protocol |-> "TCP",
       TargetPort |-> FromInt(8080)],
      [IsNil |-> FALSE, Name |-> StrDns, Port |-> 53, Protocol |-> "UDP",
       TargetPort |-> FromInt(5353)]>>

\* The services and EndpointSlices of the store: ns/svc has two endpoints,
\* ns/empty has none, ns/missing does not exist.
StoreGetService ==
    (NsSvc :> [err |-> FALSE, svc |-> RegularService("ns/svc", "", StreamServicePorts)])
    @@ (NsEmpty :> [err |-> FALSE,
                    svc |-> RegularService("ns/empty", "", StreamServicePorts)])
    @@ (NsMissing :> [err |-> TRUE, svc |-> NilService])

StoreGetServiceEndpointsSlices ==
    ("ns/svc" :> [err |-> FALSE,
                  epss |-> <<[Ports |-> <<>>,
                              Endpoints |->
                                  <<[Addresses |-> <<"10.0.0.1">>, Ready |-> "true",
                                     HasHints |-> TRUE, ForZones |-> <<"z1">>,
                                     TargetRef |-> "pod-a"],
                                    [Addresses |-> <<"10.0.0.2">>, Ready |-> "true",
                                     HasHints |-> TRUE, ForZones |-> <<"z2">>,
                                     TargetRef |-> "pod-b"]>>]>>])
    @@ ("ns/empty" :> [err |-> FALSE, epss |-> <<>>])

StreamConfigMapName == <<"ns", "tcp-services">>

\* External ports (configmap keys) and service references of the configmap.
StreamKeys ==
    {<<"9", "0", "0", "0">>, <<"0", "9", "0", "0", "0">>, <<"9", "0", "0", "1">>,
     <<"8", "0">>, <<"x">>}

StreamRefs ==
    {<<NsSvc, <<"8", "0">>>>,
     <<NsSvc, StrHttp, "PROXY">>,
     <<NsSvc, <<"8", "0">>, "x", "Proxy">>,
     <<NsSvc, StrHttp, "PROXY", "PROXY", "x">>,
     <<NsSvc, StrDns>>,
     <<NsSvc, <<"8", "1">>>>,
     <<NsSvc, <<"4", "2", "9", "4", "9", "6", "7", "3", "7", "6">>>>,
     <<NsEmpty, <<"8", "0">>>>,
     <<NsMissing, <<"8", "0">>>>,
     <<<<"svc">>, <<"8", "0">>>>,
     <<NsSvc>>}

StreamData ==
    UNION {[keys -> StreamRefs] :
              keys \in {k \in SUBSET StreamKeys : Cardinality(k) <= MaxEntries}}

StreamController(topologyAware, configmap) ==
    [cfg |-> Config(topologyAware),
     store |-> [GetService |-> StoreGetService,
                GetServiceEndpointsSlices |-> StoreGetServiceEndpointsSlices,
                GetConfigMap |-> (StreamConfigMapName :> configmap)]]

StreamCalls ==
    {[n |-> StreamController(topo, [err |-> FALSE, Data |-> data]),
      configmapName |-> StreamConfigMapName, proto |-> proto] :
        topo \in BOOLEAN, data \in StreamData, proto \in {"TCP", "UDP"}}
    \cup
    {[n |-> StreamController(FALSE, [err |-> TRUE, Data |-> <<>>]),
      configmapName |-> name, proto |-> proto] :
        name \in {<<>>, <<"tcp-services">>, StreamConfigMapName},
        proto \in {"TCP", "UDP"}}

InitStream ==
    /\ strCall \in StreamCalls
    /\ strRet = StrPending
    /\ EPIdle /\ LocIdle /\ PassIdle /\ DUIdle /\ SortIdle

CallGetStreamServices ==
    /\ ~strRet.done
    /\ \E order \in streamOrders(strCall.n, strCall.configmapName) :
          strRet' = [done |-> TRUE,
                     svcs |-> getStreamServices(strCall.n, strCall.configmapName,
                                                strCall.proto, order)]
    /\ UNCHANGED <<strCall, epVars, locVars, passVars, duVars, sortVars>>

NextStream == CallGetStreamServices

SpecStream == InitStream /\ [][NextStream]_vars

(***************************************************************************)
(* Properties of getStreamServices.                                        *)
(***************************************************************************)
StrConfigMap == streamConfigMap(strCall.n, strCall.configmapName)

StrData == StrConfigMap.Data

StrKeys == IF StrConfigMap.err THEN {} ELSE DOMAIN StrData

\* The entry is accepted by every check that precedes the sort.
StrValidEntry(key) ==
    streamEntry(strCall.n, key, StrData[key], strCall.proto) # <<>>

C9_NoReservedPort ==
    \A i \in 1..Len(strRet.svcs) :
        /\ strRet.svcs[i].Port \notin reservedPorts(strCall.n)
        /\ \E key \in StrKeys : ~Atoi(key).err /\ Atoi(key).val = strRet.svcs[i].Port

C9_AllValidReturned ==
    /\ Len(strRet.svcs) = Cardinality({key \in StrKeys : StrValidEntry(key)})
    /\ \A key \in StrKeys :
          StrValidEntry(key) =>
              \E i \in 1..Len(strRet.svcs) :
                  <<strRet.svcs[i]>> =
                      streamEntry(strCall.n, key, StrData[key], strCall.proto)

C9_Ascending ==
    \A i, j \in 1..Len(strRet.svcs) :
        i < j => strRet.svcs[i].Port <= strRet.svcs[j].Port

C9_OrderIndependent ==
    \A order \in streamOrders(strCall.n, strCall.configmapName) :
        strRet.svcs = getStreamServices(strCall.n, strCall.configmapName,
                                        strCall.proto, order)

\* C9: no returned L4Service has a reserved external port or a key that is
\* not an integer; the valid entries are all returned, in ascending order of
\* external port, whatever the order the configmap entries are ranged over in.
C9_StreamPorts ==
    strRet.done =>
        /\ C9_NoReservedPort
        /\ C9_AllValidReturned
        /\ C9_Ascending
        /\ C9_OrderIndependent

\* The parts of C9 that do not depend on the iteration order.
C9_WithoutOrder ==
    strRet.done => C9_NoReservedPort /\ C9_AllValidReturned /\ C9_Ascending

\* The entries of the configmap an L4Service may come from.
C10_EntriesOf(l4) ==
    {key \in StrKeys :
        /\ ~Atoi(key).err /\ Atoi(key).val = l4.Port
        /\ Len(StrData[key]) >= 2
        /\ ~ParseNameNS(StrData[key][1]).err
        /\ ParseNameNS(StrData[key][1]).ns = l4.Backend.Namespace
        /\ ParseNameNS(StrData[key][1]).name = l4.Backend.Name
        /\ StrData[key][2] = l4.Backend.Port.StrVal}

\* The port token names the declared port: by number when it is numeric,
\* else by name.
C10_TokenNames(token, sp) ==
    IF AtoiWide(token).err THEN sp.Name = token
    ELSE /\ ~AtoiWide(token).neg
         /\ AtoiWide(token).hi = sp.Port \div Limb
         /\ AtoiWide(token).lo = sp.Port % Limb

\* C10: every returned L4Service has at least one endpoint; it comes from an
\* entry whose service exists, whose port token names a declared port of the
\* requested protocol, and whose endpoints are the ones resolved for that
\* port, never a default endpoint.
C10_StreamEndpoints ==
    strRet.done =>
        \A i \in 1..Len(strRet.svcs) :
            LET l4 == strRet.svcs[i]
            IN  /\ Len(l4.Endpoints) >= 1
                /\ \E key \in C10_EntriesOf(l4) :
                      LET got == strCall.n.store.GetService[StrData[key][1]]
                      IN  /\ ~got.err
                          /\ \E p \in 1..Len(got.svc.Ports) :
                                /\ got.svc.Ports[p].Protocol = strCall.proto
                                /\ C10_TokenNames(StrData[key][2], got.svc.Ports[p])
                                /\ l4.Endpoints =
                                      getEndpointsFromSlices(
                                          got.svc, got.svc.Ports[p], strCall.proto,
                                          zoneFor(strCall.n),
                                          strCall.n.store.GetServiceEndpointsSlices)

\* The never-empty part of C10 alone.
C10_NeverEmpty ==
    strRet.done =>
        \A i \in 1..Len(strRet.svcs) : Len(strRet.svcs[i].Endpoints) >= 1

(***************************************************************************)
(* Byte order of Go strings (the < and > of the sort passes).              *)
(***************************************************************************)
CharOrder ==
    <<"-", ".", "/", "0", "1", "2", "3", "4", "5", "6", "7", "8", "9", "_",
      "a", "b", "c", "d", "e", "f", "g", "h", "i", "j", "k", "l", "m",
      "n", "o", "p", "q", "r", "s", "t", "u", "v", "w", "x", "y", "z">>

CharCode(c) == CHOOSE i \in 1..Len(CharOrder) : CharOrder[i] = c

RECURSIVE StrLess(_, _)
StrLess(a, b) ==
    IF b = <<>> THEN FALSE
    ELSE IF a = <<>> THEN TRUE
    ELSE IF Head(a) = Head(b) THEN StrLess(Tail(a), Tail(b))
    ELSE CharCode(Head(a)) < CharCode(Head(b))

(***************************************************************************)
(* src/controller.go: getDefaultUpstream and the builders it is used by.   *)
(*                                                                         *)
(* A Go map is a function; a pointer to a Service or an Ingress is the key *)
(* of the object.                                                          *)
(***************************************************************************)
defUpstreamName ==
    <<"u", "p", "s", "t", "r", "e", "a", "m", "-", "d", "e", "f", "a", "u", "l", "t",
      "-", "b", "a", "c", "k", "e", "n", "d">>

defServerName == <<"_">>

NoAffinity ==
    [AffinityType |-> "", AffinityMode |-> "",
     CookieSessionAffinity |-> [Name |-> "", Locations |-> <<>>]]

NoAuthTLS == [CAFileName |-> "", Secret |-> "", AuthTLSError |-> ""]

NoProxySSL == [CAFileName |-> "", Secret |-> ""]

\* types.go:83-107
NewBackend(name) ==
    [Name |-> name, Service |-> "", Port |-> FromInt(0), SSLPassthrough |-> FALSE,
     Endpoints |-> <<>>, SessionAffinity |-> NoAffinity, NoServer |-> FALSE,
     TrafficShapingPolicy |-> [Weight |-> 0], AlternativeBackends |-> <<>>]

\* The static endpoint of the controller itself (DefaultEndpoint).
DefaultEndpoint(n) ==
    [Address |-> "127.0.0.1", Port |-> Itoa(n.cfg.ListenPorts.Default),
     Target |-> "nil"]

\* controller.go:467: &svc.Spec.Ports[0] of a service that declares no port is
\* an index out of range, a run-time panic.
getDefaultUpstreamPanics(n) ==
    /\ n.cfg.DefaultService # <<>>
    /\ ~n.store.GetService[n.cfg.DefaultService].err
    /\ Len(n.store.GetService[n.cfg.DefaultService].svc.Ports) = 0

\* controller.go:443-475, when it returns.  DefaultService is <<>> when none
\* is configured.
getDefaultUpstream(n) ==
    LET upstream == NewBackend(defUpstreamName)
        svcKey == n.cfg.DefaultService
    IN  IF svcKey = <<>>
        THEN [upstream EXCEPT !.Endpoints = <<DefaultEndpoint(n)>>]
        ELSE IF n.store.GetService[svcKey].err
        THEN [upstream EXCEPT !.Endpoints = <<DefaultEndpoint(n)>>]
        ELSE LET svc == n.store.GetService[svcKey].svc
                 endps == getEndpointsFromSlices(svc, svc.Ports[1], "TCP", zoneFor(n),
                                                 n.store.GetServiceEndpointsSlices)
             IN  [upstream EXCEPT
                     !.Service = svc.Key,
                     !.Endpoints = IF Len(endps) = 0 THEN <<DefaultEndpoint(n)>>
                                   ELSE endps]

\* upstreamName: "<namespace>-<service>-<port>".
upstreamName(namespace, service) ==
    namespace \o <<"-">> \o service.Name \o <<"-">> \o IntOrStringText(service.Port)

\* The declared port of svc an ingress path refers to, by number or by name.
RECURSIVE servicePortOf(_, _)
servicePortOf(ports, backendPort) ==
    IF ports = <<>> THEN NilPort
    ELSE IF \/ (backendPort.Type = "Int" /\ Head(ports).Port = backendPort.IntVal)
            \/ (backendPort.Type = "String" /\ Head(ports).Name = backendPort.StrVal)
    THEN Head(ports)
    ELSE servicePortOf(Tail(ports), backendPort)

\* The endpoints of the service an ingress path refers to; none when the
\* service or the port does not exist.
serviceEndpoints(n, namespace, service) ==
    LET got == n.store.GetService[<<namespace, service.Name>>]
    IN  IF got.err THEN <<>>
        ELSE getEndpointsFromSlices(got.svc, servicePortOf(got.svc.Ports, service.Port),
                                    "TCP", zoneFor(n),
                                    n.store.GetServiceEndpointsSlices)

\* The paths of all the rules of an ingress that have a service backend.
RECURSIVE servicePathsOfRules(_)
servicePathsOfRules(rules) ==
    IF rules = <<>> THEN <<>>
    ELSE (IF Head(rules).HasHTTP
          THEN SelectSeq(Head(rules).Paths, LAMBDA path : path.HasService)
          ELSE <<>>)
            \o servicePathsOfRules(Tail(rules))

\* One Backend per (namespace, service, port) a path refers to; the first
\* ingress that refers to it creates it, a canary ingress creates it noServer.
RECURSIVE createUpstreamsOfPaths(_, _, _, _)
createUpstreamsOfPaths(n, upstreams, ing, paths) ==
    IF paths = <<>> THEN upstreams
    ELSE LET service == Head(paths).Service
             name == upstreamName(ing.Namespace, service)
             anns == ing.ParsedAnnotations
             got == n.store.GetService[<<ing.Namespace, service.Name>>]
             created ==
                 [NewBackend(name) EXCEPT
                     !.Port = service.Port,
                     !.Service = IF got.err THEN "" ELSE got.svc.Key,
                     !.Endpoints = serviceEndpoints(n, ing.Namespace, service),
                     !.NoServer = anns.Canary.Enabled,
                     !.TrafficShapingPolicy = [Weight |-> anns.Canary.Weight]]
             next == IF name \in DOMAIN upstreams THEN upstreams
                     ELSE upstreams @@ (name :> created)
         IN  createUpstreamsOfPaths(n, next, ing, Tail(paths))

RECURSIVE createUpstreamsOf(_, _, _)
createUpstreamsOf(n, upstreams, ingresses) ==
    IF ingresses = <<>> THEN upstreams
    ELSE createUpstreamsOf(
             n,
             createUpstreamsOfPaths(n, upstreams, Head(ingresses),
                                    servicePathsOfRules(Head(ingresses).Rules)),
             Tail(ingresses))

\* createUpstreams: seeded with the default Backend under its reserved name.
createUpstreams(n, ingresses, du) ==
    createUpstreamsOf(n, (defUpstreamName :> du), ingresses)

\* The catch-all root Location of a new Server.
defaultRootLocation(du) ==
    [NewLocation(rootLocation, pathTypePrefix, du.Name, NoRewrite) EXCEPT
        !.IsDefBackend = TRUE, !.Service = du.Service]

NewServer(hostname, du, sslPassthrough) ==
    [Hostname |-> hostname, SSLPassthrough |-> sslPassthrough,
     Locations |-> <<defaultRootLocation(du)>>, RedirectFromToWWW |-> FALSE,
     CertificateAuth |-> NoAuthTLS, AuthTLSError |-> "", ProxySSL |-> NoProxySSL]

RECURSIVE createServersOfRules(_, _, _, _)
createServersOfRules(servers, ing, rules, du) ==
    IF rules = <<>> THEN servers
    ELSE LET host == IF Head(rules).Host = <<>> THEN defServerName
                     ELSE Head(rules).Host
             next == IF host \in DOMAIN servers THEN servers
                     ELSE servers @@
                            (host :> NewServer(host, du,
                                               ing.ParsedAnnotations.SSLPassthrough))
         IN  createServersOfRules(next, ing, Tail(rules), du)

RECURSIVE createServersOf(_, _, _)
createServersOf(servers, ingresses, du) ==
    IF ingresses = <<>> THEN servers
    ELSE createServersOf(
             createServersOfRules(servers, Head(ingresses), Head(ingresses).Rules, du),
             Tail(ingresses), du)

\* createServers: one Server per hostname of any rule, and the default server.
createServers(ingresses, upstreams, du) ==
    createServersOf((defServerName :> NewServer(defServerName, du, FALSE)),
                    ingresses, du)

(***************************************************************************)
(* src/controller.go: getBackendServers                                    *)
(***************************************************************************)
\* k8s.MetaNamespaceKey; a *Ingress is the key of the ingress.
IngressKey(ing) == <<ing.Namespace, ing.Name>>

\* locationApplyAnnotations: the annotation-derived settings of a Location.
locationApplyAnnotations(loc, anns) ==
    [loc EXCEPT !.Rewrite = anns.Rewrite,
                !.Redirect = anns.Redirect,
                !.HasDefaultBackend = anns.HasDefaultBackend,
                !.DefaultBackend = anns.DefaultBackend]

adoptTLS_lastWins(n, server, anns) ==
    [server EXCEPT !.CertificateAuth = anns.CertificateAuth,
                   !.ProxySSL = anns.ProxySSL]

\* controller.go:185-211
adoptTLS(n, server, anns) ==
    LET s1 == IF server.AuthTLSError = "" /\ anns.CertificateAuth.AuthTLSError # ""
              THEN [server EXCEPT !.AuthTLSError = anns.CertificateAuth.AuthTLSError]
              ELSE server
        s2 == IF s1.CertificateAuth.CAFileName = ""
              THEN [s1 EXCEPT !.CertificateAuth = anns.CertificateAuth]
              ELSE s1
    IN  IF ~n.store.GetBackendConfiguration.ProxySSLLocationOnly
           /\ s2.ProxySSL.CAFileName = ""
        THEN [s2 EXCEPT !.ProxySSL = anns.ProxySSL]
        ELSE s2

isNoServer_never(ups) == FALSE

\* controller.go:229-232
isNoServer(ups) == ups.NoServer

\* controller.go:240-243: the first Location with the path, 0 when none.
RECURSIVE samePathIndex(_, _, _)
samePathIndex(locations, nginxPath, i) ==
    IF i > Len(locations) THEN 0
    ELSE IF locations[i].Path = nginxPath THEN i
    ELSE samePathIndex(locations, nginxPath, i + 1)

\* controller.go:234-296
mergeLocation(server, ups, ing, path) ==
    LET anns == ing.ParsedAnnotations
        nginxPath == IF path.Path # <<>> THEN path.Path ELSE rootLocation
        i == samePathIndex(server.Locations, nginxPath, 1)
        added ==
            locationApplyAnnotations(
                [NewLocation(nginxPath, path.PathType, ups.Name, NoRewrite) EXCEPT
                    !.Service = ups.Service, !.Port = ups.Port,
                    !.Ingress = IngressKey(ing)],
                anns)
    IN  IF i = 0 \/ server.Locations[i].PathType # path.PathType
        THEN [server EXCEPT
                 !.Locations = Append(@, added),
                 !.RedirectFromToWWW = @ \/ added.Redirect.FromToWWW]
        ELSE IF ~server.Locations[i].IsDefBackend THEN server
        ELSE LET replaced ==
                     locationApplyAnnotations(
                         [server.Locations[i] EXCEPT
                             !.Backend = ups.Name, !.IsDefBackend = FALSE,
                             !.Port = ups.Port, !.Service = ups.Service,
                             !.Ingress = IngressKey(ing)],
                         anns)
             IN  [server EXCEPT
                     !.Locations[i] = replaced,
                     !.RedirectFromToWWW = @ \/ replaced.Redirect.FromToWWW]

\* controller.go:298-336; the Server has no aliases.
adoptAffinity(ups, anns, host, path) ==
    LET a1 == IF ups.SessionAffinity.AffinityType = ""
              THEN [ups EXCEPT !.SessionAffinity.AffinityType = anns.SessionAffinity.Type]
              ELSE ups
        a2 == IF a1.SessionAffinity.AffinityMode = ""
              THEN [a1 EXCEPT !.SessionAffinity.AffinityMode = anns.SessionAffinity.Mode]
              ELSE a1
        locs == a2.SessionAffinity.CookieSessionAffinity.Locations
        locs1 == IF host \in DOMAIN locs THEN locs ELSE locs @@ (host :> <<>>)
    IN  IF anns.SessionAffinity.Type = "cookie"
        THEN [a2 EXCEPT !.SessionAffinity.CookieSessionAffinity =
                 [Name |-> anns.SessionAffinity.Cookie.Name,
                  Locations |-> [locs1 EXCEPT ![host] = Append(@, path.Path)]]]
        ELSE a2

\* controller.go:218-337: one path of a rule; key is the Server the rule
\* resolved to.
mergePath(st, ing, host, key, path) ==
    IF ~path.HasService THEN st
    ELSE LET upsName == upstreamName(ing.Namespace, path.Service)
             ups == st.upstreams[upsName]
         IN  IF isNoServer(ups) THEN st
             ELSE [st EXCEPT
                      !.servers[key] = mergeLocation(@, ups, ing, path),
                      !.upstreams[upsName] =
                          adoptAffinity(@, ing.ParsedAnnotations, host, path)]

RECURSIVE mergePaths(_, _, _, _, _)
mergePaths(st, ing, host, key, paths) ==
    IF paths = <<>> THEN st
    ELSE mergePaths(mergePath(st, ing, host, key, Head(paths)), ing, host, key,
                    Tail(paths))

\* controller.go:168-337: one rule of an ingress.
mergeRule(n, st, ing, rule) ==
    LET host == IF rule.Host = <<>> THEN defServerName ELSE rule.Host
        key == IF host \in DOMAIN st.servers THEN host ELSE defServerName
    IN  IF ~rule.HasHTTP /\ host # defServerName THEN st
        ELSE LET adopted == [st EXCEPT
                                !.servers[key] = adoptTLS(n, @, ing.ParsedAnnotations)]
             IN  IF ~rule.HasHTTP THEN adopted
                 ELSE mergePaths(adopted, ing, host, key, rule.Paths)

RECURSIVE mergeRules(_, _, _, _)
mergeRules(n, st, ing, rules) ==
    IF rules = <<>> THEN st
    ELSE mergeRules(n, mergeRule(n, st, ing, Head(rules)), ing, Tail(rules))

\* controller.go:160-344: one ingress, set aside when it is a canary.
mergeIngress(n, st, ing) ==
    LET merged == mergeRules(n, st, ing, ing.Rules)
    IN  IF ing.ParsedAnnotations.Canary.Enabled
        THEN [merged EXCEPT !.canaryIngresses = Append(@, ing)]
        ELSE merged

RECURSIVE mergeIngresses(_, _, _)
mergeIngresses(n, st, ingresses) ==
    IF ingresses = <<>> THEN st
    ELSE mergeIngresses(n, mergeIngress(n, st, Head(ingresses)), Tail(ingresses))

\* nonCanaryIngressExists: some ingress of the set is not a canary.
nonCanaryIngressExists(ingresses, canaryIngresses) ==
    Len(ingresses) - Len(canaryIngresses) > 0

SeqElems(s) == {s[i] : i \in DOMAIN s}

\* The Backend of the canary becomes an alternative of the Backend serving
\* the same path and path-type on the server, unless that is the default
\* Backend or the canary Backend itself.
RECURSIVE mergeAlternativeOfPath(_, _, _, _, _)
mergeAlternativeOfPath(upstreams, locations, altName, path, i) ==
    IF i > Len(locations) THEN upstreams
    ELSE LET loc == locations[i]
             priName == loc.Backend
             nginxPath == IF path.Path # <<>> THEN path.Path ELSE rootLocation
             merge == /\ loc.Path = nginxPath
                      /\ loc.PathType = path.PathType
                      /\ priName # defUpstreamName
                      /\ priName # altName
                      /\ altName \notin SeqElems(upstreams[priName].AlternativeBackends)
             next == IF merge
                     THEN [upstreams EXCEPT
                              ![priName].AlternativeBackends = Append(@, altName)]
                     ELSE upstreams
         IN  mergeAlternativeOfPath(next, locations, altName, path, i + 1)

RECURSIVE mergeAlternativeOfPaths(_, _, _, _)
mergeAlternativeOfPaths(upstreams, server, ing, paths) ==
    IF paths = <<>> THEN upstreams
    ELSE LET path == Head(paths)
             next == IF ~path.HasService THEN upstreams
                     ELSE mergeAlternativeOfPath(
                              upstreams, server.Locations,
                              upstreamName(ing.Namespace, path.Service), path, 1)
         IN  mergeAlternativeOfPaths(next, server, ing, Tail(paths))

RECURSIVE mergeAlternativeOfRules(_, _, _, _)
mergeAlternativeOfRules(upstreams, servers, ing, rules) ==
    IF rules = <<>> THEN upstreams
    ELSE LET rule == Head(rules)
             host == IF rule.Host = <<>> THEN defServerName ELSE rule.Host
             next == IF ~rule.HasHTTP \/ host \notin DOMAIN servers THEN upstreams
                     ELSE mergeAlternativeOfPaths(upstreams, servers[host], ing,
                                                  rule.Paths)
         IN  mergeAlternativeOfRules(next, servers, ing, Tail(rules))

\* mergeAlternativeBackends: one canary ingress folded into the Backends.
mergeAlternativeBackends(ing, upstreams, servers) ==
    mergeAlternativeOfRules(upstreams, servers, ing, ing.Rules)

\* controller.go:346-350
RECURSIVE mergeCanaries(_, _, _)
mergeCanaries(canaryIngresses, upstreams, servers) ==
    IF canaryIngresses = <<>> THEN upstreams
    ELSE mergeCanaries(Tail(canaryIngresses),
                       mergeAlternativeBackends(Head(canaryIngresses), upstreams, servers),
                       servers)

shouldCreateUpstreamForLocationDefaultBackend_never(upstream, location) == FALSE

\* shouldCreateUpstreamForLocationDefaultBackend: the Location has a default
\* backend override and the upstream is the Backend it refers to.
shouldCreateUpstreamForLocationDefaultBackend(upstream, location) ==
    upstream.Name = location.Backend /\ location.HasDefaultBackend

customDefaultBackendPrefix ==
    <<"c", "u", "s", "t", "o", "m", "-", "d", "e", "f", "a", "u", "l", "t", "-",
      "b", "a", "c", "k", "e", "n", "d", "-">>

\* controller.go:385
customDefaultBackendName(svc) ==
    customDefaultBackendPrefix \o svc.Namespace \o <<"-">> \o svc.Name

appendUpstream_dropped(aUpstreams, nb) == aUpstreams

\* controller.go:391
appendUpstream(aUpstreams, nb) == Append(aUpstreams, nb)

\* controller.go:363-410: the Locations of one Server against one upstream;
\* acc collects the clones, the updated Servers and whether isHTTPSfrom has
\* an element.
RECURSIVE customDefaultBackends(_, _, _, _, _)
customDefaultBackends(n, acc, upstream, host, i) ==
    IF i > Len(acc.servers[host].Locations) THEN acc
    ELSE LET server == acc.servers[host]
             location == server.Locations[i]
         IN  IF ~shouldCreateUpstreamForLocationDefaultBackend(upstream, location)
             THEN customDefaultBackends(n, acc, upstream, host, i + 1)
             ELSE IF Len(location.DefaultBackend.Ports) = 0
             THEN customDefaultBackends(n, acc, upstream, host, i + 1)
             ELSE LET sp == location.DefaultBackend.Ports[1]
                      endps == getEndpointsFromSlices(
                                   location.DefaultBackend, sp, "TCP", zoneFor(n),
                                   n.store.GetServiceEndpointsSlices)
                      name == customDefaultBackendName(location.DefaultBackend)
                      nb == [upstream EXCEPT !.Name = name, !.Endpoints = endps]
                      updated ==
                          IF Len(endps) > 0
                          THEN [location EXCEPT
                                   !.DefaultBackendUpstreamName = name,
                                   !.Backend = IF Len(upstream.Endpoints) = 0
                                               THEN name ELSE @]
                          ELSE location
                      https == /\ server.SSLPassthrough
                               /\ updated.Path = rootLocation
                               /\ updated.Backend # defUpstreamName
                      next == [aUpstreams |-> IF Len(endps) > 0
                                              THEN appendUpstream(acc.aUpstreams, nb)
                                              ELSE acc.aUpstreams,
                               servers |-> [acc.servers EXCEPT
                                               ![host].Locations[i] = updated],
                               isHTTPSfrom |-> acc.isHTTPSfrom \/ https]
                  IN  customDefaultBackends(n, next, upstream, host, i + 1)

\* controller.go:362: the Servers in the order the map is ranged over.
RECURSIVE customDefaultBackendsOfServers(_, _, _, _)
customDefaultBackendsOfServers(n, acc, upstream, srvOrder) ==
    IF srvOrder = <<>> THEN acc
    ELSE customDefaultBackendsOfServers(
             n, customDefaultBackends(n, acc, upstream, Head(srvOrder), 1),
             upstream, Tail(srvOrder))

\* controller.go:354-416: the upstreams in the order the map is ranged over.
\* aUpstreams holds a pointer to the upstream, so it shows the SSLPassthrough
\* flag set at the end of the iteration; the clones were copied before.
RECURSIVE rangeUpstreams(_, _, _, _, _)
rangeUpstreams(n, out, upstreams, upsOrder, srvOrder) ==
    IF upsOrder = <<>> THEN out
    ELSE LET upstream == upstreams[Head(upsOrder)]
         IN  IF upstream.Name = defUpstreamName
             THEN rangeUpstreams(
                      n, [out EXCEPT !.aUpstreams = Append(@, upstream)],
                      upstreams, Tail(upsOrder), srvOrder)
             ELSE LET acc == customDefaultBackendsOfServers(
                                 n, [aUpstreams |-> <<>>, servers |-> out.servers,
                                     isHTTPSfrom |-> FALSE],
                                 upstream, srvOrder)
                      final == IF acc.isHTTPSfrom
                               THEN [upstream EXCEPT !.SSLPassthrough = TRUE]
                               ELSE upstream
                  IN  rangeUpstreams(
                          n, [aUpstreams |-> out.aUpstreams \o <<final>> \o acc.aUpstreams,
                              servers |-> acc.servers],
                          upstreams, Tail(upsOrder), srvOrder)

sortLocations_byPathOnly(locations) ==
    SortStable(LAMBDA a, b : StrLess(b.Path, a.Path), locations)

\* controller.go:420-426
sortLocations(locations) ==
    SortStable(LAMBDA a, b : Len(a.Path) > Len(b.Path),
               SortStable(LAMBDA a, b : StrLess(b.Path, a.Path), locations))

\* controller.go:418-428: the Servers in the order the map is ranged over.
rangeServers(servers, order) ==
    [i \in 1..Len(order) |->
        [servers[order[i]] EXCEPT !.Locations = sortLocations(@)]]

\* controller.go:430-432
sortUpstreams(aUpstreams) ==
    SortStable(LAMBDA a, b : StrLess(a.Name, b.Name), aUpstreams)

\* controller.go:434-436
sortServers(aServers) ==
    SortStable(LAMBDA a, b : StrLess(a.Hostname, b.Hostname), aServers)

\* The orders Go ranges over the maps of a pass in: upstreams (354), servers
\* (362) and servers again (419).
mapOrders(upstreams, servers) ==
    [upstreams : Orders(DOMAIN upstreams), servers : Orders(DOMAIN servers),
     sorted : Orders(DOMAIN servers)]

\* controller.go:154-156
buildMaps(n, ingresses) ==
    LET du == getDefaultUpstream(n)
        upstreams == createUpstreams(n, ingresses, du)
    IN  [upstreams |-> upstreams, servers |-> createServers(ingresses, upstreams, du),
         canaryIngresses |-> <<>>]

\* controller.go:154-350: the maps after the merge loop and the canary merge.
mergedMaps(n, ingresses) ==
    LET st == mergeIngresses(n, buildMaps(n, ingresses), ingresses)
    IN  [st EXCEPT !.upstreams =
            IF nonCanaryIngressExists(ingresses, st.canaryIngresses)
            THEN mergeCanaries(st.canaryIngresses, st.upstreams, st.servers)
            ELSE @]

\* controller.go:153-439
getBackendServers(n, ingresses, orders) ==
    LET st == mergedMaps(n, ingresses)
        out == rangeUpstreams(n, [aUpstreams |-> <<>>, servers |-> st.servers],
                              st.upstreams, orders.upstreams, orders.servers)
    IN  [upstreams |-> sortUpstreams(out.aUpstreams),
         servers |-> sortServers(rangeServers(out.servers, orders.sorted))]

\* main.go:485-494
RECURSIVE getStreamSnippets(_)
getStreamSnippets(ingresses) ==
    IF ingresses = <<>> THEN <<>>
    ELSE (IF Head(ingresses).ParsedAnnotations.StreamSnippet = "" THEN <<>>
          ELSE <<Head(ingresses).ParsedAnnotations.StreamSnippet>>)
            \o getStreamSnippets(Tail(ingresses))

\* main.go:470-483
getDefaultSSLCertificate(n) ==
    IF n.cfg.DefaultSSLCertificate # "" /\ ~n.store.GetLocalSSLCert[n.cfg.DefaultSSLCertificate].err
    THEN n.store.GetLocalSSLCert[n.cfg.DefaultSSLCertificate].cert
    ELSE n.cfg.FakeCertificate

\* main.go:232-245: the first root Location of a passthrough Server.
RECURSIVE passthroughOf(_, _, _)
passthroughOf(server, locations, i) ==
    IF i > Len(locations) THEN <<>>
    ELSE IF locations[i].Path # rootLocation THEN passthroughOf(server, locations, i + 1)
    ELSE <<[Backend |-> locations[i].Backend, Hostname |-> server.Hostname,
            Service |-> locations[i].Service, Port |-> locations[i].Port]>>

\* main.go:200-246
RECURSIVE passUpstreamsOf(_)
passUpstreamsOf(servers) ==
    IF servers = <<>> THEN <<>>
    ELSE (IF Head(servers).SSLPassthrough
          THEN passthroughOf(Head(servers), Head(servers).Locations, 1)
          ELSE <<>>)
            \o passUpstreamsOf(Tail(servers))

\* main.go:197-253: the Configuration of the upstreams and servers that
\* getBackendServers returned; streamOrder holds the orders the two stream
\* configmaps are ranged over in.
assembleConfiguration(n, ingresses, built, streamOrder) ==
    LET servers == [i \in 1..Len(built.servers) |->
                       [built.servers[i] EXCEPT
                           !.Locations = updateServerLocations(@)]]
    IN  [hosts |-> {servers[i].Hostname : i \in 1..Len(servers)},
         servers |-> servers,
         conf |->
            [Backends |-> built.upstreams,
             Servers |-> servers,
             TCPEndpoints |-> getStreamServices(n, n.cfg.TCPConfigMapName, "TCP",
                                                streamOrder.tcp),
             UDPEndpoints |-> getStreamServices(n, n.cfg.UDPConfigMapName, "UDP",
                                                streamOrder.udp),
             PassthroughBackends |-> passUpstreamsOf(servers),
             BackendConfigChecksum |-> n.store.GetBackendConfiguration.Checksum,
             DefaultSSLCertificate |-> getDefaultSSLCertificate(n),
             StreamSnippets |-> getStreamSnippets(ingresses)]]

\* The orders the stream configmaps of the controller may be ranged over in.
streamOrdersOf(n) ==
    [tcp : streamOrders(n, n.cfg.TCPConfigMapName),
     udp : streamOrders(n, n.cfg.UDPConfigMapName)]

\* main.go:194-254
getConfiguration(n, ingresses, orders, streamOrder) ==
    assembleConfiguration(n, ingresses, getBackendServers(n, ingresses, orders),
                          streamOrder)

(***************************************************************************)
(* Inputs of a synthesis pass: the store, the controller and the ingresses.*)
(***************************************************************************)
MaxIngresses == 2       \* ingresses of one pass

ConfNamespace == <<"n">>
SvcOne == <<"s", "1">>
SvcTwo == <<"s", "2">>
SvcCanary == <<"s", "3">>
SvcEmpty == <<"s", "0">>
SvcErrors == <<"e", "r", "r">>
SvcMissing == <<"s", "9">>
SvcPortless == <<"s", "p">>
HostA == <<"a">>
HostB == <<"b">>
HostC == <<"c">>

HttpPort ==
    [IsNil |-> FALSE, Name |-> StrHttp, Port |-> 80, Protocol |-> "TCP",
     TargetPort |-> FromInt(8080)]

\* A Service with its namespace and name.
PassService(key, name) ==
    [Namespace |-> ConfNamespace, Name |-> name] @@ RegularService(key, "", <<HttpPort>>)

PassGetService ==
    (<<ConfNamespace, SvcOne>> :> [err |-> FALSE, svc |-> PassService("n/s1", SvcOne)])
    @@ (<<ConfNamespace, SvcTwo>> :> [err |-> FALSE, svc |-> PassService("n/s2", SvcTwo)])
    @@ (<<ConfNamespace, SvcCanary>> :>
            [err |-> FALSE, svc |-> PassService("n/s3", SvcCanary)])
    @@ (<<ConfNamespace, SvcEmpty>> :>
            [err |-> FALSE, svc |-> PassService("n/s0", SvcEmpty)])
    @@ (<<ConfNamespace, SvcErrors>> :>
            [err |-> FALSE, svc |-> PassService("n/err", SvcErrors)])
    @@ (<<ConfNamespace, SvcMissing>> :> [err |-> TRUE, svc |-> NilService])
    @@ (<<ConfNamespace, SvcPortless>> :>
            [err |-> FALSE,
             svc |-> [Namespace |-> ConfNamespace, Name |-> SvcPortless]
                        @@ RegularService("n/sp", "", <<>>)])

OneSlice(address, pod) ==
    [err |-> FALSE,
     epss |-> <<[Ports |-> <<>>,
                 Endpoints |-> <<[Addresses |-> <<address>>, Ready |-> "true",
                                  HasHints |-> FALSE, ForZones |-> <<>>,
                                  TargetRef |-> pod]>>]>>]

\* n/s0 has no endpoint.
PassGetServiceEndpointsSlices ==
    ("n/s1" :> OneSlice("10.0.1.1", "pod-1"))
    @@ ("n/s2" :> OneSlice("10.0.2.1", "pod-2"))
    @@ ("n/s3" :> OneSlice("10.0.3.1", "pod-3"))
    @@ ("n/s0" :> [err |-> FALSE, epss |-> <<>>])
    @@ ("n/err" :> OneSlice("10.0.9.1", "pod-9"))

\* The controller of a pass: no stream configmap, the generated certificate.
PassController(defaultService) ==
    [cfg |-> [DefaultService |-> defaultService, TCPConfigMapName |-> <<>>,
              UDPConfigMapName |-> <<>>, DefaultSSLCertificate |-> "",
              FakeCertificate |-> "fake-certificate"]
             @@ Config(FALSE),
     store |-> [GetService |-> PassGetService,
                GetServiceEndpointsSlices |-> PassGetServiceEndpointsSlices,
                GetConfigMap |-> <<>>,
                GetLocalSSLCert |-> <<>>,
                GetBackendConfiguration |->
                    [AllowSnippetAnnotations |-> TRUE, ProxySSLLocationOnly |-> FALSE,
                     Checksum |-> "checksum"]]]

NoAnnotations ==
    [Canary |-> [Enabled |-> FALSE, Weight |-> 0],
     CertificateAuth |-> NoAuthTLS, ProxySSL |-> NoProxySSL,
     SessionAffinity |-> [Type |-> "", Mode |-> "", Cookie |-> [Name |-> ""]],
     StreamSnippet |-> "", HasDefaultBackend |-> FALSE, DefaultBackend |-> NilService,
     SSLPassthrough |-> FALSE, Rewrite |-> NoRewrite,
     Redirect |-> [FromToWWW |-> FALSE]]

HTTPPath(path, pathType, service, port) ==
    [Path |-> path, PathType |-> pathType, HasService |-> TRUE,
     Service |-> [Name |-> service, Port |-> port]]

Rule(host, paths) == [Host |-> host, HasHTTP |-> TRUE, Paths |-> paths]

RuleWithoutHTTP(host) == [Host |-> host, HasHTTP |-> FALSE, Paths |-> <<>>]

NewIngress(name, rules, anns) ==
    [Namespace |-> ConfNamespace, Name |-> name, Rules |-> rules,
     ParsedAnnotations |-> anns]

PathX == <<"/", "x">>

\* web and api claim the same path of host a, web with a default-backend
\* override that has no endpoint and api with one that has; shop takes the root of the
\* passthrough host b; web-canary is a canary of host a, shop-canary one of
\* host b with two backends on one path; legacy has two rules without HTTP
\* block, one for host c and one without host, a CA secret that was not
\* found and a backend-TLS CA; errors has a default-backend override, a TLS
\* secret without CA file, and claims the path of web and api with both
\* path-types, for a service with no endpoint.
IngressWeb ==
    NewIngress("web", <<Rule(HostA, <<HTTPPath(PathX, pathTypePrefix, SvcOne, FromInt(80))>>)>>,
        [NoAnnotations EXCEPT
            !.StreamSnippet = "proxy_timeout 1s;",
            !.CertificateAuth = [CAFileName |-> "ca-web", Secret |-> "n/ca-web",
                                 AuthTLSError |-> ""],
            !.ProxySSL = [CAFileName |-> "ca-web", Secret |-> "n/ca-web"],
            !.HasDefaultBackend = TRUE,
            !.DefaultBackend = PassService("n/s0", SvcEmpty),
            !.SessionAffinity = [Type |-> "cookie", Mode |-> "balanced",
                                 Cookie |-> [Name |-> "route"]]])

IngressApi ==
    NewIngress("api", <<Rule(HostA, <<HTTPPath(PathX, pathTypePrefix, SvcTwo, FromInt(80))>>)>>,
        [NoAnnotations EXCEPT
            !.StreamSnippet = "proxy_timeout 2s;",
            !.CertificateAuth = [CAFileName |-> "ca-api", Secret |-> "n/ca-api",
                                 AuthTLSError |-> ""],
            !.ProxySSL = [CAFileName |-> "ca-api", Secret |-> "n/ca-api"],
            !.HasDefaultBackend = TRUE,
            !.DefaultBackend = PassService("n/err", SvcErrors)])

IngressShop ==
    NewIngress("shop",
        <<Rule(HostB, <<HTTPPath(<<>>, pathTypePrefix, SvcOne, FromString(StrHttp))>>)>>,
        [NoAnnotations EXCEPT !.SSLPassthrough = TRUE])

IngressWebCanary ==
    NewIngress("web-canary",
        <<Rule(HostA, <<HTTPPath(PathX, pathTypePrefix, SvcCanary, FromInt(80))>>)>>,
        [NoAnnotations EXCEPT !.Canary = [Enabled |-> TRUE, Weight |-> 10]])

IngressShopCanary ==
    NewIngress("shop-canary",
        <<Rule(HostB, <<HTTPPath(PathX, pathTypePrefix, SvcCanary, FromInt(80)),
                        HTTPPath(PathX, pathTypePrefix, SvcCanary, FromString(StrHttp))>>)>>,
        [NoAnnotations EXCEPT !.Canary = [Enabled |-> TRUE, Weight |-> 20]])

IngressLegacy ==
    NewIngress("legacy", <<RuleWithoutHTTP(HostC), RuleWithoutHTTP(<<>>)>>,
        [NoAnnotations EXCEPT
            !.CertificateAuth = [CAFileName |-> "", Secret |-> "",
                                 AuthTLSError |-> "secret not found"],
            !.ProxySSL = [CAFileName |-> "ca-legacy", Secret |-> "n/ca-legacy"]])

IngressErrors ==
    NewIngress("errors",
        <<Rule(HostA, <<HTTPPath(PathX, pathTypeExact, SvcEmpty, FromInt(80)),
                        HTTPPath(PathX, pathTypePrefix, SvcEmpty, FromInt(80))>>)>>,
        [NoAnnotations EXCEPT
            !.CertificateAuth = [CAFileName |-> "", Secret |-> "n/tls-errors",
                                 AuthTLSError |-> ""],
            !.ProxySSL = [CAFileName |-> "", Secret |-> "n/tls-errors"],
            !.HasDefaultBackend = TRUE,
            !.DefaultBackend = PassService("n/err", SvcErrors)])

IngressPool ==
    {IngressWeb, IngressApi, IngressShop, IngressWebCanary, IngressShopCanary,
     IngressLegacy, IngressErrors}

\* The lists of at most n distinct ingresses of pool.
RECURSIVE IngressLists(_, _)
IngressLists(n, pool) ==
    IF n = 0 THEN {<<>>}
    ELSE {<<>>} \cup
         UNION {{<<ing>> \o rest : rest \in IngressLists(n - 1, pool \ {ing})} :
                   ing \in pool}

PassCalls ==
    {[n |-> PassController(defaultService), ingresses |-> ingresses] :
        defaultService \in {<<>>, <<ConfNamespace, SvcErrors>>,
                            <<ConfNamespace, SvcPortless>>},
        ingresses \in IngressLists(MaxIngresses, IngressPool)}

(***************************************************************************)
(* Specification of one synthesis pass: getConfiguration, step by step.    *)
(***************************************************************************)
InitPass ==
    /\ passCall \in PassCalls
    /\ pass = PassPending
    /\ EPIdle /\ LocIdle /\ StrIdle /\ DUIdle /\ SortIdle

\* controller.go:154-158
BuildMaps ==
    /\ pass.pc = "build"
    /\ IF getDefaultUpstreamPanics(passCall.n)
       THEN pass' = [pass EXCEPT !.pc = "panic"]
       ELSE LET st == buildMaps(passCall.n, passCall.ingresses)
            IN  pass' = [pass EXCEPT !.pc = "merge", !.upstreams = st.upstreams,
                                     !.servers = st.servers]
    /\ UNCHANGED <<passCall, epVars, locVars, strVars, duVars, sortVars>>

\* controller.go:160-344: one iteration of the loop over the ingresses.
MergeIngress ==
    /\ pass.pc = "merge"
    /\ pass.idx <= Len(passCall.ingresses)
    /\ LET st == mergeIngress(passCall.n,
                              [upstreams |-> pass.upstreams, servers |-> pass.servers,
                               canaryIngresses |-> pass.canaryIngresses],
                              passCall.ingresses[pass.idx])
       IN  pass' = [pass EXCEPT !.idx = @ + 1, !.upstreams = st.upstreams,
                                !.servers = st.servers,
                                !.canaryIngresses = st.canaryIngresses]
    /\ UNCHANGED <<passCall, epVars, locVars, strVars, duVars, sortVars>>

\* controller.go:346-352
MergeCanaries ==
    /\ pass.pc = "merge"
    /\ pass.idx > Len(passCall.ingresses)
    /\ pass' = [pass EXCEPT
                   !.pc = "range",
                   !.upstreams =
                       IF nonCanaryIngressExists(passCall.ingresses, pass.canaryIngresses)
                       THEN mergeCanaries(pass.canaryIngresses, pass.upstreams,
                                          pass.servers)
                       ELSE @,
                   !.pending = DOMAIN pass.upstreams]
    /\ UNCHANGED <<passCall, epVars, locVars, strVars, duVars, sortVars>>

\* controller.go:354-416: one iteration of the range over the upstreams map,
\* with its own range over the servers map.
RangeUpstream ==
    /\ pass.pc = "range"
    /\ \E name \in pass.pending : \E srvOrder \in Orders(DOMAIN pass.servers) :
          LET out == rangeUpstreams(passCall.n,
                                    [aUpstreams |-> pass.aUpstreams,
                                     servers |-> pass.servers],
                                    pass.upstreams, <<name>>, srvOrder)
          IN  pass' = [pass EXCEPT !.pending = @ \ {name},
                                   !.aUpstreams = out.aUpstreams,
                                   !.servers = out.servers]
    /\ UNCHANGED <<passCall, epVars, locVars, strVars, duVars, sortVars>>

\* controller.go:418-438
SortOutput ==
    /\ pass.pc = "range"
    /\ pass.pending = {}
    /\ \E order \in Orders(DOMAIN pass.servers) :
          pass' = [pass EXCEPT
                      !.pc = "assemble",
                      !.aUpstreams = sortUpstreams(@),
                      !.aServers = sortServers(rangeServers(pass.servers, order))]
    /\ UNCHANGED <<passCall, epVars, locVars, strVars, duVars, sortVars>>

\* main.go:197-253
AssembleConfiguration ==
    /\ pass.pc = "assemble"
    /\ \E streamOrder \in streamOrdersOf(passCall.n) :
          pass' = [pass EXCEPT
                      !.pc = "done",
                      !.ret = assembleConfiguration(
                                  passCall.n, passCall.ingresses,
                                  [upstreams |-> pass.aUpstreams,
                                   servers |-> pass.aServers],
                                  streamOrder)]
    /\ UNCHANGED <<passCall, epVars, locVars, strVars, duVars, sortVars>>

NextPass ==
    \/ BuildMaps
    \/ MergeIngress
    \/ MergeCanaries
    \/ RangeUpstream
    \/ SortOutput
    \/ AssembleConfiguration

SpecPass == InitPass /\ [][NextPass]_vars

PassDone == pass.pc = "done"

(***************************************************************************)
(* Properties of a synthesis pass.                                         *)
(***************************************************************************)
PassIngresses == SeqElems(passCall.ingresses)

PassBackends == SeqElems(pass.ret.conf.Backends)

\* The Configurations getConfiguration can return for the ingresses in the
\* given order, whatever the orders the maps are ranged over in.
ConfigurationsOf(n, ingresses) ==
    LET maps == mergedMaps(n, ingresses)
    IN  {getConfiguration(n, ingresses, orders, streamOrder).conf :
            orders \in mapOrders(maps.upstreams, maps.servers),
            streamOrder \in streamOrdersOf(n)}

\* C1: the Configuration a pass returns is the one every pass over the same
\* store and the same ingresses in any other list order returns: same
\* Backends, Servers, stream services, PassthroughBackends and StreamSnippets.
C1_OrderIndependent ==
    PassDone =>
        \A other \in Orders(PassIngresses) :
            ConfigurationsOf(passCall.n, other) = {pass.ret.conf}

IsCanary(ing) == ing.ParsedAnnotations.Canary.Enabled

HostsOf(ing) ==
    {IF ing.Rules[i].Host = <<>> THEN defServerName ELSE ing.Rules[i].Host :
        i \in DOMAIN ing.Rules}

BackendNamesOf(ing) ==
    {upstreamName(ing.Namespace, path.Service) :
        path \in SeqElems(servicePathsOfRules(ing.Rules))}

\* A non-canary ingress of the pass has a rule for a host of the ingress.
HasPrimary(ing) ==
    \E primary \in PassIngresses :
        ~IsCanary(primary) /\ HostsOf(primary) \cap HostsOf(ing) # {}

\* The canary ingresses of the pass with no primary ingress for their hosts.
LoneCanaries == {ing \in PassIngresses : IsCanary(ing) /\ ~HasPrimary(ing)}

\* The names some Backend of the output lists as an alternative backend.
ListedAlternatives ==
    UNION {SeqElems(backend.AlternativeBackends) : backend \in PassBackends}

DefaultServiceKey == <<"ns", "svc">>

DefaultServiceMissing == <<"ns", "missing">>

\* The port lists of the default service: none, or one declared port.
DefaultServicePorts == {<<>>} \cup {<<port>> : port \in ServicePorts}

\* A controller whose store holds the default service with the ports and the
\* EndpointSlices given; ns/missing does not exist.
DefaultController(defaultService, topologyAware, ports, lookup) ==
    [cfg |-> [DefaultService |-> defaultService] @@ Config(topologyAware),
     store |-> [GetService |->
                    (DefaultServiceKey :>
                        [err |-> FALSE, svc |-> RegularService("ns/svc", "", ports)])
                    @@ (DefaultServiceMissing :> [err |-> TRUE, svc |-> NilService]),
                GetServiceEndpointsSlices |-> lookup]]

\* The calls with at most slices EndpointSlices of at most endpoints endpoints.
DefaultCalls(slices, endpoints) ==
    {DefaultController(DefaultServiceKey, topologyAware, ports, LookupOK("ns/svc", epss)) :
        topologyAware \in BOOLEAN, ports \in DefaultServicePorts,
        epss \in SliceLists(slices, endpoints, EndpointPool)}
    \cup
    {DefaultController(defaultService, topologyAware, ports, LookupFails("ns/svc")) :
        defaultService \in {<<>>, DefaultServiceMissing, DefaultServiceKey},
        topologyAware \in BOOLEAN, ports \in DefaultServicePorts}

InitDefault ==
    /\ duCall \in DefaultCalls(MaxSlices, MaxEndpoints)
    /\ duRet = DUPending
    /\ EPIdle /\ LocIdle /\ StrIdle /\ PassIdle /\ SortIdle

\* controller.go:443-475
CallGetDefaultUpstream ==
    /\ ~duRet.done
    /\ duRet' = IF getDefaultUpstreamPanics(duCall)
                THEN [done |-> TRUE, panicked |-> TRUE, upstream |-> <<>>]
                ELSE [done |-> TRUE, panicked |-> FALSE,
                      upstream |-> getDefaultUpstream(duCall)]
    /\ UNCHANGED <<duCall, epVars, locVars, strVars, passVars, sortVars>>

NextDefault == CallGetDefaultUpstream

SpecDefault == InitDefault /\ [][NextDefault]_vars

\* The endpoints of the first port of the configured default service; none
\* when no service is configured or its lookup fails.
DefaultServiceEndpoints ==
    IF duCall.cfg.DefaultService = <<>> THEN <<>>
    ELSE IF duCall.store.GetService[duCall.cfg.DefaultService].err THEN <<>>
    ELSE LET svc == duCall.store.GetService[duCall.cfg.DefaultService].svc
         IN  IF svc.Ports = <<>> THEN <<>>
             ELSE getEndpointsFromSlices(svc, svc.Ports[1], "TCP", zoneFor(duCall),
                                         duCall.store.GetServiceEndpointsSlices)

\* What C11 says of a call that returned.
C11_Returned ==
    /\ duRet.upstream.Name = defUpstreamName
    /\ duRet.upstream.Endpoints # <<>>
    /\ duRet.upstream.Endpoints =
           IF DefaultServiceEndpoints # <<>> THEN DefaultServiceEndpoints
           ELSE <<DefaultEndpoint(duCall)>>

\* C11: every call of getDefaultUpstream returns a Backend with the reserved
\* default-upstream name and at least one endpoint: the endpoints resolved for
\* the first port of the default service when there is one, otherwise only
\* the static default endpoint.
C11_DefaultUpstream == duRet.done => (~duRet.panicked /\ C11_Returned)

\* The same for the calls whose default service declares a port.
C11_WithPorts == (duRet.done /\ ~duRet.panicked) => C11_Returned

\* C15: no pass aborts, and the Configuration a pass returns has the default
\* backend, with at least one endpoint, in its Backends.
C15_NoAbort ==
    /\ pass.pc # "panic"
    /\ PassDone =>
          \E backend \in PassBackends :
              backend.Name = defUpstreamName /\ backend.Endpoints # <<>>

\* The same for the passes that do not abort.
C15_Completed ==
    PassDone =>
        \E backend \in PassBackends :
            backend.Name = defUpstreamName /\ backend.Endpoints # <<>>

\* The Backends and Servers getBackendServers returned, once it has.
PassReturned == pass.pc \in {"assemble", "done"}

BackendNames(backends) == {backends[i].Name : i \in DOMAIN backends}

\* The backend names of the Locations of a list of Servers.
BackendsOfLocations(servers) ==
    UNION {{servers[i].Locations[j].Backend : j \in DOMAIN servers[i].Locations} :
              i \in DOMAIN servers}

\* C12: the backend of every Location of every Server that getBackendServers
\* returns, and of every Server of the final Configuration, is the name of a
\* Backend of the returned Backends list.
C12_LocationBackendExists ==
    /\ PassReturned =>
          BackendsOfLocations(pass.aServers) \subseteq BackendNames(pass.aUpstreams)
    /\ PassDone =>
          BackendsOfLocations(pass.ret.conf.Servers)
              \subseteq BackendNames(pass.ret.conf.Backends)

\* A finished pass with a Location redirected to a custom default backend.
C12_Witness ==
    /\ PassDone
    /\ \E i \in DOMAIN pass.ret.conf.Servers :
          \E j \in DOMAIN pass.ret.conf.Servers[i].Locations :
              LET location == pass.ret.conf.Servers[i].Locations[j]
              IN  /\ location.HasDefaultBackend
                  /\ location.Backend =
                         customDefaultBackendName(location.DefaultBackend)

\* No two elements of the list have the same value of the key.
UniqueBy(Key(_), list) ==
    \A i, j \in DOMAIN list : Key(list[i]) = Key(list[j]) => i = j

\* C13: no two Backends that getBackendServers returns have the same name,
\* the custom default backends included, and no two Servers the same hostname.
C13_UniqueNames ==
    PassReturned =>
        /\ UniqueBy(LAMBDA backend : backend.Name, pass.aUpstreams)
        /\ UniqueBy(LAMBDA server : server.Hostname, pass.aServers)

\* The same without the custom default backends.
C13_UniqueButCustom ==
    PassReturned =>
        /\ UniqueBy(LAMBDA backend : backend.Name,
                    SelectSeq(pass.aUpstreams,
                              LAMBDA backend : backend.Name \in DOMAIN pass.upstreams))
        /\ UniqueBy(LAMBDA server : server.Hostname, pass.aServers)

\* The names of the Backends of a map or list that are noServer.
NoServerNames(backends) ==
    {backends[k].Name : k \in {x \in DOMAIN backends : backends[x].NoServer}}

\* The Locations of the Servers of a map or list, by server.
LocationsOf(servers) == [k \in DOMAIN servers |-> servers[k].Locations]

\* The next ingress of the merge loop refers to noServer Backends only.
NextIngressIsNoServer ==
    /\ pass.pc = "merge"
    /\ pass.idx <= Len(passCall.ingresses)
    /\ BackendNamesOf(passCall.ingresses[pass.idx]) # {}
    /\ BackendNamesOf(passCall.ingresses[pass.idx]) \subseteq NoServerNames(pass.upstreams)

\* C14: at every point of a pass no Location of any Server has a noServer
\* Backend as its backend, in the maps and in the returned lists, and the
\* merge of an ingress whose Backends are all noServer adds no Location and
\* overwrites none.
C14_NoServerNotAttached ==
    /\ [](/\ BackendsOfLocations(pass.servers) \cap NoServerNames(pass.upstreams) = {}
          /\ PassReturned =>
                BackendsOfLocations(pass.aServers) \cap NoServerNames(pass.aUpstreams) = {}
          /\ PassDone =>
                /\ BackendsOfLocations(pass.ret.conf.Servers)
                       \cap NoServerNames(pass.ret.conf.Backends) = {}
                /\ {pass.ret.conf.PassthroughBackends[i].Backend :
                        i \in DOMAIN pass.ret.conf.PassthroughBackends}
                       \cap NoServerNames(pass.ret.conf.Backends) = {})
    /\ [][NextIngressIsNoServer => LocationsOf(pass'.servers) = LocationsOf(pass.servers)]_vars

\* A finished pass in which a noServer Backend was merged as an alternative.
C14_Witness ==
    /\ PassDone
    /\ NoServerNames(pass.ret.conf.Backends) \cap ListedAlternatives # {}

\* The Locations of every Server of the map or list differ in path or type.
OneLocationPerPathAndType(servers) ==
    \A k \in DOMAIN servers :
        UniqueBy(LAMBDA location : <<location.Path, location.PathType>>,
                 servers[k].Locations)

\* C16: once getBackendServers has merged the ingresses, every Server holds
\* at most one Location per (path, path-type) pair.
C16_OnePerPathAndType ==
    /\ pass.pc \in {"range", "assemble", "done"} => OneLocationPerPathAndType(pass.servers)
    /\ PassReturned => OneLocationPerPathAndType(pass.aServers)

\* The service paths of the rules of an ingress that resolve to a Server,
\* in the order the merge loop visits them.
RECURSIVE servicePathsFor(_, _)
servicePathsFor(rules, hostname) ==
    IF rules = <<>> THEN <<>>
    ELSE (IF /\ Head(rules).HasHTTP
             /\ hostname = (IF Head(rules).Host = <<>> THEN defServerName
                            ELSE Head(rules).Host)
          THEN SelectSeq(Head(rules).Paths, LAMBDA path : path.HasService)
          ELSE <<>>)
            \o servicePathsFor(Tail(rules), hostname)

\* The paths among them that would bind the (path, path-type) of a Location.
BindingPaths(ing, hostname, location) ==
    SelectSeq(servicePathsFor(ing.Rules, hostname),
              LAMBDA path :
                  /\ (IF path.Path # <<>> THEN path.Path ELSE rootLocation) = location.Path
                  /\ path.PathType = location.PathType
                  /\ ~pass.upstreams[upstreamName(ing.Namespace, path.Service)].NoServer)

SameBinding(a, b) ==
    /\ a.Path = b.Path /\ a.PathType = b.PathType
    /\ a.Backend = b.Backend /\ a.Service = b.Service
    /\ a.Port = b.Port /\ a.Ingress = b.Ingress

\* One step of the merge loop.
MergeStep == pass.pc = "merge" /\ pass'.pc = "merge"

\* A Location that points to a non-default backend keeps its binding.
KeepsBindings ==
    \A k \in DOMAIN pass.servers :
        \A j \in DOMAIN pass.servers[k].Locations :
            ~pass.servers[k].Locations[j].IsDefBackend =>
                SameBinding(pass'.servers[k].Locations[j], pass.servers[k].Locations[j])

\* No Location is appended for the path and type of such a Location.
AppendsNoRival ==
    \A k \in DOMAIN pass.servers :
        LET old == pass.servers[k].Locations
            new == pass'.servers[k].Locations
        IN  \A j \in DOMAIN old : \A i \in (Len(old) + 1)..Len(new) :
                ~old[j].IsDefBackend =>
                    ~(new[i].Path = old[j].Path /\ new[i].PathType = old[j].PathType)

\* A Location that points to the default backend is taken, in place, by the
\* first path of the ingress with its path and type.
OverwritesDefault ==
    \A k \in DOMAIN pass.servers :
        \A j \in DOMAIN pass.servers[k].Locations :
            LET ing == passCall.ingresses[pass.idx]
                old == pass.servers[k].Locations[j]
                new == pass'.servers[k].Locations[j]
                paths == BindingPaths(ing, k, old)
            IN  (old.IsDefBackend /\ paths # <<>>) =>
                    /\ ~new.IsDefBackend
                    /\ new.Path = old.Path /\ new.PathType = old.PathType
                    /\ new.Backend = upstreamName(ing.Namespace, paths[1].Service)
                    /\ new.Ingress = IngressKey(ing)

\* C17: in the merge loop a Location that points to a non-default backend is
\* never changed by a later ingress path of the same path and path-type and
\* no further Location is appended for it, and a Location that points to the
\* default backend is overwritten in place by the first such path.
C17_FirstWriterWins ==
    [][MergeStep => (KeepsBindings /\ AppendsNoRival /\ OverwritesDefault)]_vars

\* The same without the part on appended Locations.
C17_InPlace == [][MergeStep => (KeepsBindings /\ OverwritesDefault)]_vars

\* The backends of the root Locations of the passthrough Servers of a list.
PassthroughRootBackends(servers) ==
    UNION {{servers[i].Locations[j].Backend :
               j \in {x \in DOMAIN servers[i].Locations :
                         servers[i].Locations[x].Path = rootLocation}} :
              i \in {y \in DOMAIN servers : servers[y].SSLPassthrough}}

\* C18: of the Backends getBackendServers returns, every one that is the
\* backend of a root Location of a Server with SSLPassthrough has
\* SSLPassthrough set, and the default backend never has.
C18_Passthrough ==
    PassReturned =>
        \A i \in DOMAIN pass.aUpstreams :
            LET backend == pass.aUpstreams[i]
            IN  IF backend.Name = defUpstreamName THEN ~backend.SSLPassthrough
                ELSE backend.Name \in PassthroughRootBackends(pass.aServers)
                        => backend.SSLPassthrough

\* The part on the default backend.
C18_DefaultNeverPassthrough ==
    PassReturned =>
        \A i \in DOMAIN pass.aUpstreams :
            pass.aUpstreams[i].Name = defUpstreamName => ~pass.aUpstreams[i].SSLPassthrough

\* The ingress of the step has rules, none of them with an HTTP block.
NoHTTPIngress(ing) ==
    /\ ing.Rules # <<>>
    /\ \A i \in DOMAIN ing.Rules : ~ing.Rules[i].HasHTTP

MergesNoHTTPIngress ==
    /\ MergeStep
    /\ pass.idx <= Len(passCall.ingresses)
    /\ NoHTTPIngress(passCall.ingresses[pass.idx])

\* C19: the merge of an ingress whose rules have no HTTP block changes no
\* Server (Locations and settings) and no Backend.
C19_NoHTTPChangesNothing ==
    [][MergesNoHTTPIngress =>
          (pass'.servers = pass.servers /\ pass'.upstreams = pass.upstreams)]_vars

\* The same for the Locations and the Backends only, and for every Server
\* but the default one.
C19_NoHTTPKeepsLocations ==
    [][MergesNoHTTPIngress =>
          /\ pass'.upstreams = pass.upstreams
          /\ LocationsOf(pass'.servers) = LocationsOf(pass.servers)
          /\ \A host \in DOMAIN pass.servers \ {defServerName} :
                 pass'.servers[host] = pass.servers[host]]_vars

\* controller.go:191, 203: the settings the code takes as adopted.
HasCertificateAuth(server) == server.CertificateAuth.CAFileName # ""

HasProxySSL(server) == server.ProxySSL.CAFileName # ""

RangeStep == pass.pc = "range" /\ pass'.pc = "range" /\ pass'.pending # pass.pending

\* The Backends the iteration appended.
AppendedBackends ==
    {pass'.aUpstreams[k] : k \in (Len(pass.aUpstreams) + 1)..Len(pass'.aUpstreams)}

\* The Location has a default-backend override with a port, and its primary
\* Backend is the one of the iteration.
ConsideredLocation(location) ==
    /\ location.HasDefaultBackend
    /\ Len(location.DefaultBackend.Ports) > 0
    /\ location.Backend \in pass.pending \ pass'.pending

\* The endpoints the first port of the override service resolves to.
OverrideEndpoints(location) ==
    getEndpointsFromSlices(location.DefaultBackend, location.DefaultBackend.Ports[1],
                           "TCP", zoneFor(passCall.n),
                           passCall.n.store.GetServiceEndpointsSlices)

CustomDefaultBackendOf(host, i) ==
    LET before == pass.servers[host].Locations[i]
        after == pass'.servers[host].Locations[i]
        name == customDefaultBackendName(before.DefaultBackend)
        endps == OverrideEndpoints(before)
    IN  IF Len(endps) > 0
        THEN /\ \E backend \in AppendedBackends :
                    backend.Name = name /\ backend.Endpoints = endps
             /\ after.DefaultBackendUpstreamName = name
             /\ after.Backend = IF Len(pass.upstreams[before.Backend].Endpoints) = 0
                                THEN name ELSE before.Backend
             /\ after = [before EXCEPT !.DefaultBackendUpstreamName = name,
                                       !.Backend = after.Backend]
        ELSE /\ after = before
             /\ \A backend \in AppendedBackends : backend.Name # name

\* C21: in the custom default-backend pass, a Location with an override that
\* resolves to endpoints gets a Backend "custom-default-backend-<ns>-<name>"
\* with exactly those endpoints, records its name, and is switched to it
\* exactly when its primary Backend has no endpoint; when the override
\* resolves to no endpoint no such Backend is added and the Location stays.
C21_CustomDefaultBackend ==
    [][RangeStep =>
          \A host \in DOMAIN pass.servers :
              /\ Len(pass'.servers[host].Locations) = Len(pass.servers[host].Locations)
              /\ \A i \in DOMAIN pass.servers[host].Locations :
                     ConsideredLocation(pass.servers[host].Locations[i])
                         => CustomDefaultBackendOf(host, i)]_vars

\* The Locations of the Servers returned.
ReturnedLocations ==
    UNION {{pass.aServers[i].Locations[j] : j \in DOMAIN pass.aServers[i].Locations} :
              i \in DOMAIN pass.aServers}

\* One Location was switched to its custom default backend and another only
\* records the name of its own.
C21_Witness ==
    /\ pass.pc = "done"
    /\ \E location \in ReturnedLocations :
           /\ location.HasDefaultBackend
           /\ location.Backend = customDefaultBackendName(location.DefaultBackend)
    /\ \E location \in ReturnedLocations :
           /\ location.HasDefaultBackend
           /\ location.DefaultBackendUpstreamName
                  = customDefaultBackendName(location.DefaultBackend)
           /\ location.Backend # location.DefaultBackendUpstreamName

\* A Location whose override resolved to no endpoint was returned.
C21_EmptyOverride ==
    /\ pass.pc = "done"
    /\ \E location \in ReturnedLocations :
           /\ location.HasDefaultBackend
           /\ OverrideEndpoints(location) = <<>>
           /\ location.DefaultBackendUpstreamName = <<>>

\* No Location of the list is preceded by one with a strictly shorter path.
LongestPathFirst(locations) ==
    \A i, j \in DOMAIN locations :
        i < j => Len(locations[i].Path) >= Len(locations[j].Path)

\* C25: in the Configuration getConfiguration returns, the Locations of every
\* Server are ordered longest path first.
C25_LongestPathFirst ==
    pass.pc = "done" =>
        \A i \in DOMAIN pass.ret.conf.Servers :
            LongestPathFirst(pass.ret.conf.Servers[i].Locations)

\* The Locations getBackendServers returns are ordered longest path first.
C25_SortedBeforeUpdate ==
    PassReturned =>
        \A i \in DOMAIN pass.aServers : LongestPathFirst(pass.aServers[i].Locations)

\* No two Locations of the list have the same path and path-type.
DistinctPathAndType(locations) ==
    \A i, j \in DOMAIN locations :
        (locations[i].Path = locations[j].Path
            /\ locations[i].PathType = locations[j].PathType) => i = j

\* C26: when no two Locations given to updateServerLocations share a path and
\* path-type, no two Locations it returns do.
C26_IdentityPreserved ==
    (locRet.done /\ DistinctPathAndType(locCall)) => DistinctPathAndType(locRet.locations)

\* The paths of two Prefix Locations of the list differ only by a trailing
\* slash.
SlashTwins(locations) ==
    \E i, j \in DOMAIN locations :
        /\ locations[i].PathType = pathTypePrefix
        /\ locations[j].PathType = pathTypePrefix
        /\ locations[i].Path # locations[j].Path
        /\ normalizePrefixPath(locations[i].Path) = normalizePrefixPath(locations[j].Path)

\* The same for the lists without such a pair.
C26_WithoutSlashTwins ==
    (locRet.done /\ DistinctPathAndType(locCall) /\ ~SlashTwins(locCall))
        => DistinctPathAndType(locRet.locations)

(***************************************************************************)
(* Inputs and specification of the final sorts of getBackendServers        *)
(* (controller.go:418-438), from the lists and maps the loops before them  *)
(* can leave.                                                              *)
(***************************************************************************)
MaxSortLocations == 3   \* Locations of the Server of host a
MaxSortBackends == 3    \* Backends of aUpstreams

SortPaths ==
    {<<"/">>, <<"/", "x">>, <<"/", "y">>, <<"/", "x", "a">>, <<"/", "x", "/">>}

SortBackendNames ==
    {defUpstreamName, <<"n", "-", "s", "1", "-", "8", "0">>,
     <<"n", "-", "s", "2", "-", "8", "0">>}

\* The lists of at most n Locations with distinct paths.
RECURSIVE SortLocationLists(_, _)
SortLocationLists(n, paths) ==
    IF n = 0 THEN {<<>>}
    ELSE {<<>>} \cup
         UNION {{<<NewLocation(path, pathTypePrefix, defUpstreamName, NoRewrite)>> \o rest :
                    rest \in SortLocationLists(n - 1, paths \ {path})} :
                   path \in paths}

\* The lists of at most n Backends; a name may occur twice (the clones).
RECURSIVE SortBackendLists(_)
SortBackendLists(n) ==
    IF n = 0 THEN {<<>>}
    ELSE {<<>>} \cup
         {<<NewBackend(name)>> \o rest :
             name \in SortBackendNames, rest \in SortBackendLists(n - 1)}

SortServer(hostname, locations) ==
    [NewServer(hostname, NewBackend(defUpstreamName), FALSE) EXCEPT
        !.Locations = locations]

\* The default server, the server of host a and, or not, one of host b.
SortCalls(nLocations, nBackends) ==
    {[aUpstreams |-> backends,
      servers |-> IF withB
                  THEN (defServerName :> NewServer(defServerName,
                                                   NewBackend(defUpstreamName), FALSE))
                       @@ (HostA :> SortServer(HostA, locations))
                       @@ (HostB :> NewServer(HostB, NewBackend(defUpstreamName), FALSE))
                  ELSE (defServerName :> NewServer(defServerName,
                                                   NewBackend(defUpstreamName), FALSE))
                       @@ (HostA :> SortServer(HostA, locations))] :
        backends \in SortBackendLists(nBackends),
        locations \in SortLocationLists(nLocations, SortPaths),
        withB \in BOOLEAN}

InitSort ==
    /\ sortCall \in SortCalls(MaxSortLocations, MaxSortBackends)
    /\ sortRet = SortPending
    /\ EPIdle /\ LocIdle /\ StrIdle /\ PassIdle /\ DUIdle

\* controller.go:418-438
CallSortOutput ==
    /\ ~sortRet.done
    /\ \E order \in Orders(DOMAIN sortCall.servers) :
          sortRet' = [done |-> TRUE,
                      aUpstreams |-> sortUpstreams(sortCall.aUpstreams),
                      aServers |-> sortServers(rangeServers(sortCall.servers, order))]
    /\ UNCHANGED <<sortCall, epVars, locVars, strVars, passVars, duVars>>

NextSort == CallSortOutput

SpecSort == InitSort /\ [][NextSort]_vars

\* Ascending by name (equal names allowed).
BackendsAscending(backends) ==
    \A i, j \in DOMAIN backends : i < j => ~StrLess(backends[j].Name, backends[i].Name)

\* Ascending by hostname.
ServersAscending(servers) ==
    \A i, j \in DOMAIN servers :
        i < j => ~StrLess(servers[j].Hostname, servers[i].Hostname)

\* Descending by path length, and by path among paths of one length.
LocationsDescending(locations) ==
    \A i, j \in DOMAIN locations :
        i < j =>
            \/ Len(locations[i].Path) > Len(locations[j].Path)
            \/ /\ Len(locations[i].Path) = Len(locations[j].Path)
               /\ ~StrLess(locations[i].Path, locations[j].Path)

\* C22: the final sorts return the Backends in ascending name order, the
\* Servers in ascending hostname order and the Locations of each Server in
\* descending path-length order, those of equal length in descending
\* lexicographic order.
C22_Sorted ==
    sortRet.done =>
        /\ BackendsAscending(sortRet.aUpstreams)
        /\ ServersAscending(sortRet.aServers)
        /\ \A i \in DOMAIN sortRet.aServers :
               LocationsDescending(sortRet.aServers[i].Locations)

\* Three Locations given in ascending order for which the two orders
\* disagree, and Backends given in descending order.
C22_Witness ==
    /\ sortRet.done
    /\ Len(sortCall.servers[HostA].Locations) = 3
    /\ sortCall.servers[HostA].Locations[1].Path = <<"/", "x">>
    /\ sortCall.servers[HostA].Locations[2].Path = <<"/", "x", "a">>
    /\ sortCall.servers[HostA].Locations[3].Path = <<"/", "y">>
    /\ \E i \in DOMAIN sortRet.aServers :
           /\ sortRet.aServers[i].Hostname = HostA
           /\ sortRet.aServers[i].Locations[1].Path = <<"/", "x", "a">>
           /\ sortRet.aServers[i].Locations[2].Path = <<"/", "y">>
           /\ sortRet.aServers[i].Locations[3].Path = <<"/", "x">>
    /\ Len(sortCall.aUpstreams) = 2
    /\ sortCall.aUpstreams[1].Name = defUpstreamName
    /\ sortCall.aUpstreams[2].Name # defUpstreamName
    /\ sortRet.aUpstreams[2].Name = defUpstreamName

\* The same order in the output of every synthesis pass.
C22_PassSorted ==
    PassReturned =>
        /\ BackendsAscending(pass.aUpstreams)
        /\ ServersAscending(pass.aServers)
        /\ \A i \in DOMAIN pass.aServers :
               LocationsDescending(pass.aServers[i].Locations)

\* The numbers of the ports of the slice that have the requested protocol
\* and the name of the service port.
PortsMatchingByName(eps) ==
    {eps.Ports[i].Port :
        i \in {k \in DOMAIN eps.Ports :
                  /\ eps.Ports[k].Protocol = epCall.proto
                  /\ eps.Ports[k].Name = epCall.port.Name}}

\* The port numbers the endpoints of the slice are to be emitted with.
ExpectedPorts(eps) ==
    IF PortsMatchingByName(eps) # {} THEN PortsMatchingByName(eps)
    ELSE {epCall.port.TargetPort.IntVal}

NamedPortCall ==
    /\ EPRegularDone
    /\ epCall.port.Name # <<>>
    /\ epCall.port.TargetPort.Type = "Int"

\* C23: for a named service port with a numeric target port, every endpoint
\* returned comes from a slice and carries a port of that slice that matches
\* by name and protocol, or the target port when the slice has no such port.
C23_NamedPort ==
    NamedPortCall =>
        \A k \in DOMAIN epRet.upsServers :
            \E i \in DOMAIN EPSlices : \E j \in DOMAIN EPSlices[i].Endpoints :
                /\ epRet.upsServers[k].Address \in SeqRange(EPSlices[i].Endpoints[j].Addresses)
                /\ \E p \in ExpectedPorts(EPSlices[i]) : epRet.upsServers[k].Port = Itoa(p)

\* The part on the protocol: a port returned is the target port or the
\* number of a slice port of the requested protocol.
C23_RequestedProtocolOnly ==
    NamedPortCall =>
        \A k \in DOMAIN epRet.upsServers :
            \/ epRet.upsServers[k].Port = Itoa(epCall.port.TargetPort.IntVal)
            \/ \E i \in DOMAIN EPSlices : \E q \in DOMAIN EPSlices[i].Ports :
                   /\ EPSlices[i].Ports[q].Protocol = epCall.proto
                   /\ epRet.upsServers[k].Port = Itoa(EPSlices[i].Ports[q].Port)

\* A slice that yields a candidate target port holds a ready endpoint with
\* an address.
HasReadyEndpoint ==
    \E i \in DOMAIN EPSlices :
        /\ candidatePorts(EPSlices[i], epCall.port, epCall.proto) # <<>>
        /\ \E j \in DOMAIN EPSlices[i].Endpoints :
               /\ ~notReady(EPSlices[i].Endpoints[j])
               /\ EPSlices[i].Endpoints[j].Addresses # <<>>

\* C27: when a slice with a candidate target port holds a ready endpoint
\* with an address, getEndpointsFromSlices returns at least one endpoint,
\* whatever the preferred zone and the traffic distribution.
C27_ZoneKeepsEndpoints ==
    (EPRegularDone /\ HasReadyEndpoint) => epRet.upsServers # <<>>

\* The same without preferred zone.
C27_WithoutZone ==
    (EPRegularDone /\ HasReadyEndpoint /\ epCall.zoneForHints = emptyZone)
        => epRet.upsServers # <<>>

\* With prefer-close traffic distribution the result is empty for some call.
C27_PreferCloseKeepsEndpoints ==
    (EPRegularDone /\ HasReadyEndpoint
        /\ epCall.s.TrafficDistribution = PreferClose) => epRet.upsServers # <<>>

\* The entries of the configmap of the call.
StreamEntriesOfCall == strCall.n.store.GetConfigMap[StreamConfigMapName].Data

\* The reference has an n-th token and it is "PROXY" in any case.
HasProxyToken(svcRef, n) == Len(svcRef) >= n /\ EqualFoldPROXY(svcRef[n])

\* The L4Service is the one of the entry, with the flags its tokens ask for
\* (encode from the 4th token only when the reference has four tokens, when
\* exactFour).
FlagsOfEntry(svc, key, exactFour) ==
    LET svcRef == StreamEntriesOfCall[key]
    IN  /\ ~Atoi(key).err /\ Atoi(key).val = svc.Port
        /\ Len(svcRef) >= 2
        /\ svc.Backend.Port = FromString(svcRef[2])
        /\ svc.Backend.ProxyProtocol.Decode
               = (strCall.proto = "TCP" /\ HasProxyToken(svcRef, 3))
        /\ svc.Backend.ProxyProtocol.Encode
               = (/\ strCall.proto = "TCP"
                  /\ HasProxyToken(svcRef, 4)
                  /\ (exactFour => Len(svcRef) = 4))

\* C24: every L4Service returned has the flags of its own entry: none for
\* UDP; for TCP decode when the 3rd token is "PROXY" and encode when the 4th
\* token is "PROXY", in any case.
C24_ProxyFlags ==
    strRet.done =>
        \A i \in DOMAIN strRet.svcs :
            /\ strCall.proto = "UDP" =>
                   /\ ~strRet.svcs[i].Backend.ProxyProtocol.Decode
                   /\ ~strRet.svcs[i].Backend.ProxyProtocol.Encode
            /\ \E key \in DOMAIN StreamEntriesOfCall :
                   FlagsOfEntry(strRet.svcs[i], key, FALSE)

\* The same with encode read from references of exactly four tokens.
C24_EncodeOfFourTokens ==
    strRet.done =>
        \A i \in DOMAIN strRet.svcs :
            /\ strCall.proto = "UDP" =>
                   /\ ~strRet.svcs[i].Backend.ProxyProtocol.Decode
                   /\ ~strRet.svcs[i].Backend.ProxyProtocol.Encode
            /\ \E key \in DOMAIN StreamEntriesOfCall :
                   FlagsOfEntry(strRet.svcs[i], key, TRUE)

====
